---- MODULE Spec2Model ----
(***************************************************************************)
(* Model of the multi-agent log analysis pipeline:                         *)
(*   ErrorClassificationAgent (extract_error_lines, classify_single_log,   *)
(*   process_multiple_logs, _aggregate_analysis), SolutionAgent            *)
(*   (find_solutions, rank_solutions), NotificationAgent                   *)
(*   (send_notifications) and MultiAgentOrchestrator (the three stage      *)
(*   nodes and the three entry points).                                    *)
(*                                                                         *)
(* Conventions.                                                            *)
(*   - An Optional value is a sequence: <<>> is None, <<v>> is the value v.*)
(*   - A Python dict with string keys is a record; dict.get is Get.        *)
(*     A dict whose insertion order matters (error_types) is the sequence  *)
(*     of its items in insertion order.                                    *)
(*   - A JSON value whose type decides whether the code raises carries a   *)
(*     tag t: "object", "array", "num", "str".                             *)
(*   - A text is a sequence of lines, a line a sequence of characters.     *)
(*   - The outcome of a call that may raise is [ok |-> TRUE, val |-> v] or *)
(*     [ok |-> FALSE, exc |-> e], e the name of the exception class.       *)
(***************************************************************************)
EXTENDS Integers, Sequences, FiniteSets, TLC

(* ---------------------------- bounds ----------------------------------- *)
\* longest log_files sequence an entry point is called with
MaxFiles == 2

\* longest solutions list the generation service returns or the ranker is given
MaxCandidates == 4

\* number of times the ranker is applied in a row
MaxRankings == 2

\* longest log text, in lines, an extractor is called with
MaxLines == 103

(* ---------------------------- generic helpers -------------------------- *)
None == <<>>

Some(v) == <<v>>

\* dict.get(k, default)
Get(d, k, default) == IF k \in DOMAIN d THEN d[k] ELSE default

Ok(v) == [ok |-> TRUE, val |-> v]

Raise(e) == [ok |-> FALSE, exc |-> e]

\* isinstance(e, cls) for the exception classes of the model
IsInstance(e, cls) == cls = "Exception" \/ e = cls

JNum(n) == [t |-> "num", n |-> n]

JStr(s) == [t |-> "str", s |-> s]

(* ---------------------------- characters and lines --------------------- *)
\* str.lower on one character
LowerChar(c) ==
    CASE c = "A" -> "a" [] c = "E" -> "e" [] c = "L" -> "l" [] c = "N" -> "n"
      [] c = "O" -> "o" [] c = "R" -> "r" [] c = "T" -> "t" [] c = "W" -> "w"
      [] OTHER -> c

Lower(line) == [i \in 1..Len(line) |-> LowerChar(line[i])]

\* keyword in line (substring test)
Contains(line, kw) ==
    \E i \in 0..(Len(line) - Len(kw)) :
        \A j \in 1..Len(kw) : line[i + j] = kw[j]

error_keywords ==
    << <<"e","r","r","o","r">>,
       <<"e","x","c","e","p","t","i","o","n">>,
       <<"f","a","i","l","e","d">>,
       <<"f","a","i","l","u","r","e">>,
       <<"f","a","t","a","l">>,
       <<"t","r","a","c","e","b","a","c","k">>,
       <<"s","t","a","c","k"," ","t","r","a","c","e">>,
       <<"e","r","r">>,
       <<"c","r","i","t","i","c","a","l">>,
       <<"p","a","n","i","c">>,
       <<"a","b","o","r","t">>,
       <<"t","i","m","e","o","u","t">>,
       <<"d","e","n","i","e","d">>,
       <<"f","o","r","b","i","d","d","e","n">>,
       <<"w","a","r","n","i","n","g">>,
       <<"w","a","r","n">>,
       <<"a","l","e","r","t">> >>

\* error_lines[-100:] keeps at most this many lines
ExtractLimit == 100

\* error_lines[-30:] is the window sent to the generation service
ContextLimit == 30

\* seq[-n:]
LastN(seq, n) ==
    IF Len(seq) > n THEN SubSeq(seq, Len(seq) - n + 1, Len(seq)) ELSE seq

IsErrorLine(line) ==
    LET line_lower == Lower(line)
    IN  \E k \in 1..Len(error_keywords) : Contains(line_lower, error_keywords[k])

extract_error_lines(log_content) ==
    LET error_lines == SelectSeq(log_content, IsErrorLine)
    IN  IF Len(error_lines) > ExtractLimit
        THEN LastN(error_lines, ExtractLimit)
        ELSE error_lines


\* ErrorAnalyzer (single-file mode): its keyword list is the list above
\* without 'warning', 'warn', 'alert'
analyzer_error_keywords == SubSeq(error_keywords, 1, 14)

\* error_lines[-50:] keeps at most this many lines
AnalyzerExtractLimit == 50

analyzer_is_error_line(line) ==
    LET line_lower == Lower(line)
    IN  \E k \in 1..Len(analyzer_error_keywords) :
            Contains(line_lower, analyzer_error_keywords[k])

\* ErrorAnalyzer.extract_error_lines
analyzer_extract_error_lines(log_content) ==
    LET error_lines == SelectSeq(log_content, analyzer_is_error_line)
    IN  IF Len(error_lines) > AnalyzerExtractLimit
        THEN LastN(error_lines, AnalyzerExtractLimit)
        ELSE error_lines

(* ---------------------------- generation service ----------------------- *)
\* A response text of the service: an optional markdown fence around a body
\* that either is JSON (val is the parsed value) or is not.
Text(fence, body) == [fence |-> fence, body |-> body]

JsonBody(v) == [json |-> TRUE, val |-> v]

Garbage == [json |-> FALSE]

\* result_text.replace("```json", "").replace("```", "").strip()
strip_fences(text) ==
    IF text.fence = "json" THEN Text("none", text.body)
    ELSE IF text.fence = "bare" THEN Text("none", text.body)
    ELSE text

\* json.loads: a fenced text and a non-JSON body raise JSONDecodeError
json_loads(text) ==
    IF text.fence = "none" /\ text.body.json
    THEN Ok(text.body.val)
    ELSE Raise("JSONDecodeError")

(* ---------------------------- per-file classifier ---------------------- *)
\* result = json.loads(result_text); result['filename'] = filename;
\* result['status'] = 'analyzed'   (item assignment raises on a non-dict)
SetFileFields(parsed, filename) ==
    IF parsed.t = "object"
    THEN Ok([k \in (DOMAIN parsed \ {"t"}) \cup {"filename", "status"} |->
               IF k = "filename" THEN filename
               ELSE IF k = "status" THEN "analyzed"
               ELSE parsed[k]])
    ELSE Raise("TypeError")

\* the body of the try block of classify_single_log
classify_try(resp, filename) ==
    IF ~resp.ok THEN resp
    ELSE LET loaded == json_loads(strip_fences(resp.val))
         IN  IF ~loaded.ok THEN loaded
             ELSE SetFileFields(loaded.val, filename)

\* variant: the last except clause catches type errors only
ClassifierExcept_narrow == "TypeError"

\* the class the last except clause of classify_single_log catches
ClassifierExcept == "Exception"

\* variant: the parse_error count is the length of the window sent
classify_single_log_window(log_content, filename, resp) ==
    LET error_lines == extract_error_lines(log_content)
        out == classify_try(resp, filename)
    IN  IF Len(error_lines) = 0
        THEN Ok([filename |-> filename, error_count |-> JNum(0),
                 errors |-> <<>>, status |-> "no_errors"])
        ELSE IF out.ok THEN out
        ELSE IF IsInstance(out.exc, "JSONDecodeError")
        THEN Ok([filename |-> filename,
                 error_count |-> JNum(Len(LastN(error_lines, ContextLimit))),
                 errors |-> << [error_type |-> "Parse Error", severity |-> "Medium",
                                message |-> out.exc] >>,
                 status |-> "parse_error"])
        ELSE IF IsInstance(out.exc, ClassifierExcept)
        THEN Ok([filename |-> filename, error_count |-> JNum(Len(error_lines)),
                 errors |-> << [error_type |-> "Analysis Error", severity |-> "High",
                                message |-> out.exc] >>,
                 status |-> "error"])
        ELSE out

\* classify_single_log; resp is what llm.invoke does if it is called. The
\* outcome is the FileClassification, or the exception no clause caught.
\* variant: a file without extracted lines is classified like any other
classify_single_log_noshortcut(log_content, filename, resp) ==
    LET error_lines == extract_error_lines(log_content)
        out == classify_try(resp, filename)
    IN  IF out.ok THEN out
        ELSE IF IsInstance(out.exc, "JSONDecodeError")
        THEN Ok([filename |-> filename, error_count |-> JNum(Len(error_lines)),
                 errors |-> << [error_type |-> "Parse Error", severity |-> "Medium",
                                message |-> out.exc] >>,
                 status |-> "parse_error"])
        ELSE IF IsInstance(out.exc, ClassifierExcept)
        THEN Ok([filename |-> filename, error_count |-> JNum(Len(error_lines)),
                 errors |-> << [error_type |-> "Analysis Error", severity |-> "High",
                                message |-> out.exc] >>,
                 status |-> "error"])
        ELSE out

classify_single_log(log_content, filename, resp) ==
    LET error_lines == extract_error_lines(log_content)
        out == classify_try(resp, filename)
    IN  IF Len(error_lines) = 0
        THEN Ok([filename |-> filename, error_count |-> JNum(0),
                 errors |-> <<>>, status |-> "no_errors"])
        ELSE IF out.ok THEN out
        ELSE IF IsInstance(out.exc, "JSONDecodeError")
        THEN Ok([filename |-> filename, error_count |-> JNum(Len(error_lines)),
                 errors |-> << [error_type |-> "Parse Error", severity |-> "Medium",
                                message |-> out.exc] >>,
                 status |-> "parse_error"])
        ELSE IF IsInstance(out.exc, ClassifierExcept)
        THEN Ok([filename |-> filename, error_count |-> JNum(Len(error_lines)),
                 errors |-> << [error_type |-> "Analysis Error", severity |-> "High",
                                message |-> out.exc] >>,
                 status |-> "error"])
        ELSE out

\* '\n'.join(error_lines[-30:]): the lines put into the prompt
error_context(log_content) == LastN(extract_error_lines(log_content), ContextLimit)

\* variant: the service is called for every file
classifier_calls_service_always(log_content) == TRUE

\* whether classify_single_log calls llm.invoke for this content
classifier_calls_service(log_content) == Len(extract_error_lines(log_content)) > 0

(* ---------------------------- cross-file aggregator -------------------- *)
Severities == {"Critical", "High", "Medium", "Low"}

\* position of key in the dict items (0 when absent)
IndexOf(items, key) ==
    IF \E i \in 1..Len(items) : items[i].error_type = key
    THEN CHOOSE i \in 1..Len(items) : items[i].error_type = key
    ELSE 0

\* variant: every record counts once, whatever its frequency
fold_error_once(acc, error, filename) ==
    LET error_type == Get(error, "error_type", "Unknown")
        severity   == Get(error, "severity", "Medium")
        types1 == IF IndexOf(acc.error_types, error_type) = 0
                  THEN Append(acc.error_types,
                              [error_type |-> error_type, count |-> 0,
                               severity |-> severity, files |-> {}])
                  ELSE acc.error_types
        i == IndexOf(types1, error_type)
    IN  IF Get(error, "frequency", JNum(1)).t # "num" THEN Raise("TypeError")
        ELSE Ok([acc EXCEPT
                 !.error_types =
                     [types1 EXCEPT ![i].count = @ + 1,
                                    ![i].files = @ \cup {filename}],
                 !.severity_counts =
                     IF severity \in Severities
                     THEN [acc.severity_counts EXCEPT ![severity] = @ + 1]
                     ELSE acc.severity_counts])

\* variant: the filename is recorded only where the entry is created
fold_error_firstfile(acc, error, filename) ==
    LET error_type == Get(error, "error_type", "Unknown")
        severity   == Get(error, "severity", "Medium")
        frequency  == Get(error, "frequency", JNum(1))
        isnew == IndexOf(acc.error_types, error_type) = 0
        types1 == IF isnew
                  THEN Append(acc.error_types,
                              [error_type |-> error_type, count |-> 0,
                               severity |-> severity, files |-> {filename}])
                  ELSE acc.error_types
        i == IndexOf(types1, error_type)
    IN  IF frequency.t # "num" THEN Raise("TypeError")
        ELSE Ok([acc EXCEPT
                 !.error_types = [types1 EXCEPT ![i].count = @ + frequency.n],
                 !.severity_counts =
                     IF severity \in Severities
                     THEN [acc.severity_counts EXCEPT ![severity] = @ + 1]
                     ELSE acc.severity_counts])

\* the body of "for error in result.get('errors', [])" for one error
fold_error(acc, error, filename) ==
    LET error_type == Get(error, "error_type", "Unknown")
        severity   == Get(error, "severity", "Medium")
        frequency  == Get(error, "frequency", JNum(1))
        types1 == IF IndexOf(acc.error_types, error_type) = 0
                  THEN Append(acc.error_types,
                              [error_type |-> error_type, count |-> 0,
                               severity |-> severity, files |-> {}])
                  ELSE acc.error_types
        i == IndexOf(types1, error_type)
    IN  IF frequency.t # "num" THEN Raise("TypeError")
        ELSE Ok([acc EXCEPT
                 !.error_types =
                     [types1 EXCEPT ![i].count = @ + frequency.n,
                                    ![i].files = @ \cup {filename}],
                 !.severity_counts =
                     IF severity \in Severities
                     THEN [acc.severity_counts EXCEPT ![severity] = @ + 1]
                     ELSE acc.severity_counts])

RECURSIVE fold_errors(_, _, _)
fold_errors(acc, errs, filename) ==
    IF Len(errs) = 0 THEN Ok(acc)
    ELSE LET one == fold_error(acc, Head(errs), filename)
         IN  IF ~one.ok THEN one
             ELSE fold_errors(one.val, Tail(errs), filename)

\* one iteration of "for log_file in log_files" after classify_single_log
fold_result(acc, result, filename) ==
    LET error_count == Get(result, "error_count", JNum(0))
        acc1 == [acc EXCEPT !.all_results = Append(@, result)]
    IN  IF error_count.t # "num" THEN Raise("TypeError")
        ELSE fold_errors([acc1 EXCEPT !.total_errors = @ + error_count.n],
                         Get(result, "errors", <<>>), filename)

\* the accumulators of process_multiple_logs before the loop
EmptyAcc ==
    [all_results |-> <<>>, total_errors |-> 0, error_types |-> <<>>,
     severity_counts |-> [s \in Severities |-> 0]]

\* list(set): every enumeration order of the set is possible
ListsOfSet(S) ==
    {f \in [1..Cardinality(S) -> S] :
        \A i, j \in 1..Cardinality(S) : i # j => f[i] # f[j]}

\* "error_types[error_type]['files'] = list(...)" for every entry: the set of
\* dicts the loop can produce
RECURSIVE ConvertedFiles(_)
ConvertedFiles(items) ==
    IF Len(items) = 0 THEN {<<>>}
    ELSE {<<[Head(items) EXCEPT !.files = l]>> \o rest :
            l \in ListsOfSet(Head(items).files),
            rest \in ConvertedFiles(Tail(items))}

(* ---------------------------- rollup summarizer ------------------------ *)
AnalysisFallback(e) ==
    [t |-> "object",
     overall_severity |-> "Medium",
     primary_issue_category |-> "General",
     key_findings |-> <<"Analysis completed with errors">>,
     recommended_actions |-> <<"Review logs manually">>,
     risk_assessment |-> "Analysis error: " \o e]

\* _aggregate_analysis; resp is what llm.invoke does
aggregate_analysis(resp) ==
    LET loaded == IF resp.ok THEN json_loads(strip_fences(resp.val)) ELSE resp
    IN  IF loaded.ok THEN loaded.val
        ELSE AnalysisFallback(loaded.exc)

\* the dict process_multiple_logs returns (timestamp left out)
process_result(acc, converted, analysis, log_files) ==
    [files_processed |-> Len(log_files),
     total_errors |-> acc.total_errors,
     file_results |-> acc.all_results,
     aggregated_errors |-> converted,
     severity_distribution |-> acc.severity_counts,
     aggregated_analysis |-> analysis]

(* ---------------------------- solution generator ----------------------- *)
\* the candidate appended while len(solutions) < 3
Placeholder(n) ==
    [rank |-> n,
     title |-> "Alternative Solution " \o ToString(n),
     description |-> "Review the error context and apply appropriate fixes",
     effectiveness |-> JStr("Medium"),
     complexity |-> JStr("Medium"),
     time_estimate |-> "Unknown",
     steps |-> <<"Analyze the error", "Identify root cause", "Apply fix">>,
     code_example |-> "",
     prerequisites |-> <<>>,
     risk_level |-> "Medium"]

RECURSIVE Pad(_)
Pad(solutions) ==
    IF Len(solutions) < 3
    THEN Pad(Append(solutions, Placeholder(Len(solutions) + 1)))
    ELSE solutions

\* sorted(seq, key): a stable sort, by the position each element ends at
StablePos(keys, i) ==
    1 + Cardinality({j \in 1..Len(keys) :
                        keys[j] < keys[i] \/ (keys[j] = keys[i] /\ j < i)})

StableSort(seq, keys) ==
    [k \in 1..Len(seq) |-> seq[CHOOSE i \in 1..Len(seq) : StablePos(keys, i) = k]]

\* solutions.sort(key=lambda x: x.get('rank', 999))
sort_by_rank(solutions) ==
    StableSort(solutions,
               [i \in 1..Len(solutions) |-> Get(solutions[i], "rank", 999)])

FallbackSolutions ==
    << [rank |-> 1, title |-> "Retry Analysis",
        description |-> "Try analyzing the error again with more context",
        effectiveness |-> JStr("Medium"), complexity |-> JStr("Low"),
        time_estimate |-> "5 minutes",
        steps |-> <<"Click Analyze Errors again", "Check API key",
                    "Verify log file format">>,
        code_example |-> "", prerequisites |-> <<>>, risk_level |-> "Low"],
       [rank |-> 2, title |-> "Manual Review",
        description |-> "Review the log file manually for errors",
        effectiveness |-> JStr("High"), complexity |-> JStr("Medium"),
        time_estimate |-> "30 minutes",
        steps |-> <<"Open log file", "Search for error keywords",
                    "Review stack traces">>,
        code_example |-> "", prerequisites |-> <<>>, risk_level |-> "Low"],
       [rank |-> 3, title |-> "Contact Support",
        description |-> "If issue persists, contact support team",
        effectiveness |-> JStr("High"), complexity |-> JStr("Low"),
        time_estimate |-> "1 hour",
        steps |-> <<"Document the error", "Check logs",
                    "Contact administrator">>,
        code_example |-> "", prerequisites |-> <<>>, risk_level |-> "Low"] >>

\* variant: the degraded candidate is followed by two placeholders
DegradedSolutions_padded(e) ==
    Pad(<< [rank |-> 1, title |-> "Error in Solution Generation",
            description |-> "Error occurred: " \o e,
            effectiveness |-> JStr("Low"), complexity |-> JStr("Low"),
            time_estimate |-> "Unknown",
            steps |-> <<"Check error message", "Retry operation">>,
            code_example |-> "", prerequisites |-> <<>>, risk_level |-> "Low"] >>)

DegradedSolutions(e) ==
    << [rank |-> 1, title |-> "Error in Solution Generation",
        description |-> "Error occurred: " \o e,
        effectiveness |-> JStr("Low"), complexity |-> JStr("Low"),
        time_estimate |-> "Unknown",
        steps |-> <<"Check error message", "Retry operation">>,
        code_example |-> "", prerequisites |-> <<>>, risk_level |-> "Low"] >>

\* variant: a list of more than 3 candidates is not cut
solutions_try_untruncated(resp) ==
    LET loaded == IF resp.ok THEN json_loads(strip_fences(resp.val)) ELSE resp
    IN  IF ~loaded.ok THEN loaded
        ELSE IF loaded.val.t # "object" THEN Raise("AttributeError")
        ELSE LET solutions == Get(loaded.val, "solutions", <<>>)
             IN  Ok(sort_by_rank(IF Len(solutions) < 3 THEN Pad(solutions)
                                 ELSE solutions))

\* the body of the try block of find_solutions
solutions_try(resp) ==
    LET loaded == IF resp.ok THEN json_loads(strip_fences(resp.val)) ELSE resp
    IN  IF ~loaded.ok THEN loaded
        ELSE IF loaded.val.t # "object" THEN Raise("AttributeError")
        ELSE LET solutions == Get(loaded.val, "solutions", <<>>)
                 three == IF Len(solutions) < 3 THEN Pad(solutions)
                          ELSE IF Len(solutions) > 3 THEN SubSeq(solutions, 1, 3)
                          ELSE solutions
             IN  Ok(sort_by_rank(three))

\* variant: a JSON decoding error is handled like any other exception
find_solutions_nofallback(resp) ==
    LET out == solutions_try(resp)
    IN  IF out.ok THEN out.val
        ELSE DegradedSolutions(out.exc)

\* find_solutions; resp is what llm.invoke does
find_solutions(resp) ==
    LET out == solutions_try(resp)
    IN  IF out.ok THEN out.val
        ELSE IF IsInstance(out.exc, "JSONDecodeError") THEN FallbackSolutions
        ELSE DegradedSolutions(out.exc)

(* ---------------------------- solution ranker -------------------------- *)
\* effectiveness_map.get(v, 2); an unhashable v (a JSON array) raises
effectiveness_weight(v) ==
    IF v.t = "array" THEN Raise("TypeError")
    ELSE IF v.t = "str" /\ v.s = "High" THEN Ok(3)
    ELSE IF v.t = "str" /\ v.s = "Medium" THEN Ok(2)
    ELSE IF v.t = "str" /\ v.s = "Low" THEN Ok(1)
    ELSE Ok(2)

complexity_weight(v) ==
    IF v.t = "array" THEN Raise("TypeError")
    ELSE IF v.t = "str" /\ v.s = "Low" THEN Ok(3)
    ELSE IF v.t = "str" /\ v.s = "Medium" THEN Ok(2)
    ELSE IF v.t = "str" /\ v.s = "High" THEN Ok(1)
    ELSE Ok(2)

\* variant: effectiveness counts once
solution_score_unweighted(sol) ==
    LET eff_score == effectiveness_weight(Get(sol, "effectiveness", JStr("Medium")))
        comp_score == complexity_weight(Get(sol, "complexity", JStr("Medium")))
    IN  IF ~eff_score.ok THEN eff_score
        ELSE IF ~comp_score.ok THEN comp_score
        ELSE Ok(eff_score.val + comp_score.val)

solution_score(sol) ==
    LET eff_score == effectiveness_weight(Get(sol, "effectiveness", JStr("Medium")))
        comp_score == complexity_weight(Get(sol, "complexity", JStr("Medium")))
    IN  IF ~eff_score.ok THEN eff_score
        ELSE IF ~comp_score.ok THEN comp_score
        ELSE Ok(eff_score.val * 2 + comp_score.val)

\* variant: an ascending sort read backwards, which turns equal scores around
rank_solutions_reversed(solutions) ==
    IF \E i \in 1..Len(solutions) : ~solution_score(solutions[i]).ok
    THEN Raise("TypeError")
    ELSE LET ascending == StableSort(solutions,
                              [i \in 1..Len(solutions) |->
                                  solution_score(solutions[i]).val])
         IN  Ok([i \in 1..Len(solutions) |-> ascending[Len(solutions) + 1 - i]])

\* sorted(solutions, key=solution_score, reverse=True): stable, descending
rank_solutions(solutions) ==
    IF \E i \in 1..Len(solutions) : ~solution_score(solutions[i]).ok
    THEN Raise("TypeError")
    ELSE Ok(StableSort(solutions,
                       [i \in 1..Len(solutions) |->
                           0 - solution_score(solutions[i]).val]))

(* ---------------------------- notification dispatcher ------------------ *)
\* send_slack_notification; slack is what the Slack notifier does:
\* "unconfigured" (no notifier), "sent" (True), "refused" (False), "raised"
send_slack_notification(slack) ==
    IF slack = "unconfigured"
    THEN [success |-> FALSE,
          error |-> "Slack notifier not initialized. Provide SLACK_WEBHOOK_URL."]
    ELSE IF slack = "raised"
    THEN [success |-> FALSE, platform |-> "Slack", error |-> "ServiceError"]
    ELSE [success |-> (slack = "sent"), platform |-> "Slack",
          message |-> IF slack = "sent" THEN "Notification sent successfully"
                      ELSE "Failed to send notification"]

\* create_jira_ticket; jira is what the JIRA side does: "unconfigured",
\* "no_project_key", "created" (a ticket), "none" (no ticket), "raised"
create_jira_ticket(jira) ==
    IF jira = "unconfigured"
    THEN [success |-> FALSE,
          error |-> "JIRA notifier not initialized. Provide JIRA configuration."]
    ELSE IF jira = "no_project_key"
    THEN [success |-> FALSE, error |-> "JIRA project key not provided."]
    ELSE IF jira = "raised"
    THEN [success |-> FALSE, platform |-> "JIRA", error |-> "ServiceError"]
    ELSE IF jira = "created"
    THEN [success |-> TRUE, platform |-> "JIRA", ticket_key |-> "OPS-1",
          message |-> "Ticket OPS-1 created successfully"]
    ELSE [success |-> FALSE, platform |-> "JIRA", error |-> "Failed to create ticket"]

\* variant: the ticket is created only after the chat message went out
NotificationAgent_send_notifications_chained(slack, jira, send_slack, send_jira) ==
    LET s == IF send_slack THEN send_slack_notification(slack) ELSE None
        j == IF send_jira /\ (~send_slack \/ Get(s, "success", FALSE))
             THEN create_jira_ticket(jira) ELSE None
    IN  [slack |-> s, jira |-> j,
         all_success |->
            /\ (~send_slack \/ (s # None /\ Get(s, "success", FALSE)))
            /\ (~send_jira \/ (j # None /\ Get(j, "success", FALSE)))]

\* NotificationAgent.send_notifications: an entry stays None when its flag
\* is false; both channel methods return a result and never raise
NotificationAgent_send_notifications(slack, jira, send_slack, send_jira) ==
    LET s == IF send_slack THEN send_slack_notification(slack) ELSE None
        j == IF send_jira THEN create_jira_ticket(jira) ELSE None
    IN  [slack |-> s, jira |-> j,
         all_success |->
            /\ (~send_slack \/ (s # None /\ Get(s, "success", FALSE)))
            /\ (~send_jira \/ (j # None /\ Get(j, "success", FALSE)))]

\* NotificationAgent.send_notifications with send_slack = send_jira = True
agent_send_notifications(slack, jira) ==
    NotificationAgent_send_notifications(slack, jira, TRUE, TRUE)

(* ---------------------------- orchestrator helpers --------------------- *)
\* variant: the first item of the dict, whatever its count
top_error_first(items) == items[1]

\* max(aggregated_errors.items(), key=count): the first item of largest count
top_error(items) ==
    items[CHOOSE i \in 1..Len(items) :
            /\ \A j \in 1..Len(items) : items[j].count <= items[i].count
            /\ \A j \in 1..(i - 1) : items[j].count < items[i].count]

\* "if not x" for an Optional dict or list
Falsy(opt) == opt = None \/ DOMAIN opt[1] = {}

\* variant: the stage nodes catch JSON decoding errors only
NodeExcept_narrow == "JSONDecodeError"

\* the exception class every stage node catches ("except Exception")
NodeExcept == "Exception"

\* variant: the notify node wired before the solve node
workflow_edge_swapped(node) ==
    CASE node = "classify_errors"    -> "send_notifications"
      [] node = "send_notifications" -> "find_solutions"
      [] node = "find_solutions"     -> "END"

\* variant: the graph ends after the solve node
workflow_edge_nonotify(node) ==
    CASE node = "classify_errors"    -> "find_solutions"
      [] node = "find_solutions"     -> "END"
      [] node = "send_notifications" -> "END"

\* _build_workflow: the edges of the compiled graph
workflow_edge(node) ==
    CASE node = "classify_errors"    -> "find_solutions"
      [] node = "find_solutions"     -> "send_notifications"
      [] node = "send_notifications" -> "END"

\* variant: the full run leaves the notify node out when send is false
NextNode_early(entry_point, node, send) ==
    IF entry_point = "run_workflow"
    THEN IF node = "find_solutions" /\ ~send THEN "END" ELSE workflow_edge(node)
    ELSE IF entry_point = "run_classification_only" THEN "END"
    ELSE IF node = "classify_errors" /\ send THEN "send_notifications"
    ELSE "END"

\* variant: the resume run enters the notify node whatever send is
NextNode_always(entry_point, node, send) ==
    IF entry_point = "run_workflow" THEN workflow_edge(node)
    ELSE IF entry_point = "run_classification_only" THEN "END"
    ELSE IF node = "classify_errors" THEN "send_notifications"
    ELSE "END"

\* the node an entry point runs after `node` ("END": it builds its result)
NextNode(entry_point, node, send) ==
    IF entry_point = "run_workflow" THEN workflow_edge(node)
    ELSE IF entry_point = "run_classification_only" THEN "END"
    ELSE IF node = "classify_errors" /\ send THEN "send_notifications"
    ELSE "END"

(* ---------------------------- inputs ----------------------------------- *)
LineErr == <<"E", "R", "R", " ", "d", "b">>

LineTimeout == <<"T", "i", "m", "e", "o", "u", "t">>

LineWarn == <<"W", "a", "r", "n">>

LineOk == <<"o", "k">>

FileA == [filename |-> "A", content |-> <<LineErr, LineOk, LineTimeout>>]

FileB == [filename |-> "B", content |-> <<LineWarn>>]

FileQ == [filename |-> "Q", content |-> <<LineOk>>]

\* the LogFile inputs: two files with matching lines and a clean one
LogFiles == {FileA, FileB, FileQ}

\* the log_files arguments made of the given files
ListsOver(files) == UNION {[1..n -> files] : n \in 0..MaxFiles}

\* the log_files arguments of the pipeline runs: a file with matching lines
\* and a clean one, in every order and number
LogFileLists == ListsOver({FileA, FileQ})

ErrorRecords ==
    [ct3    |-> [error_type |-> "ConnectionTimeout", severity |-> "Medium",
                 frequency |-> JNum(3), message |-> "timed out"],
     ct1    |-> [error_type |-> "ConnectionTimeout", severity |-> "Medium",
                 frequency |-> JNum(1), message |-> "timed out"],
     npe5   |-> [error_type |-> "NullPointerException", severity |-> "High",
                 frequency |-> JNum(5), message |-> "null"],
     ctbare |-> [error_type |-> "ConnectionTimeout", severity |-> "Severe"],
     ctstr  |-> [error_type |-> "ConnectionTimeout", severity |-> "Low",
                 frequency |-> JStr("many")]]

\* what llm.invoke can do for the per-file classifier: it raises, it returns
\* text that is no JSON, or JSON (fenced or not) of the requested shape or
\* with a field of another type
ClassifierResponses ==
    { Raise("ServiceError"),
      Ok(Text("none", Garbage)),
      Ok(Text("json", JsonBody([t |-> "object", error_count |-> JNum(3),
                                errors |-> <<ErrorRecords.ct3>>]))),
      Ok(Text("none", JsonBody([t |-> "object", error_count |-> JNum(6),
                                errors |-> <<ErrorRecords.ct1, ErrorRecords.npe5>>]))),
      Ok(Text("none", JsonBody([t |-> "object", error_count |-> JNum(2),
                                errors |-> <<ErrorRecords.npe5, ErrorRecords.ctstr>>]))) }

\* the classifier responses of the aggregation runs: the ones above, a JSON
\* array, an object without errors, records without frequency or without
\* error_type, a type repeated within one file, an error_count of another type
AggregatorResponses ==
    ClassifierResponses \cup
    { Ok(Text("none", JsonBody([t |-> "array"]))),
      Ok(Text("none", JsonBody([t |-> "object", error_count |-> JNum(0),
                                errors |-> <<>>]))),
      Ok(Text("bare", JsonBody([t |-> "object",
                                errors |-> <<ErrorRecords.ctbare, ErrorRecords.ct1>>]))),
      Ok(Text("none", JsonBody([t |-> "object", error_count |-> JNum(8),
                                errors |-> <<ErrorRecords.npe5,
                                             [severity |-> "Low", frequency |-> JNum(2)],
                                             [frequency |-> JNum(0)]>>]))),
      Ok(Text("none", JsonBody([t |-> "object", error_count |-> JStr("3"),
                                errors |-> <<ErrorRecords.ct3>>]))) }

\* what llm.invoke can do for the rollup summarizer
RollupResponses ==
    { Raise("ServiceError"),
      Ok(Text("none", Garbage)),
      Ok(Text("none", JsonBody([t |-> "array"]))),
      Ok(Text("json", JsonBody([t |-> "object", overall_severity |-> "High",
                                primary_issue_category |-> "Network",
                                key_findings |-> <<"pool exhausted">>,
                                recommended_actions |-> <<"raise pool size">>,
                                risk_assessment |-> "outage"]))),
      Ok(Text("none", JsonBody([t |-> "object", overall_severity |-> "Low",
                                key_findings |-> <<>>]))) }

Candidate(rank, title, eff, comp) ==
    [rank |-> rank, title |-> title, effectiveness |-> eff, complexity |-> comp]

\* what llm.invoke can do for the solution generator
SolutionResponses ==
    { Raise("ServiceError"),
      Ok(Text("none", Garbage)),
      Ok(Text("json", JsonBody([t |-> "object", solutions |->
            << Candidate(2, "Restart", JStr("Low"), JStr("Low")),
               Candidate(1, "Tune pool", JStr("High"), JStr("High")),
               Candidate(3, "Rewrite", JStr("High"), JStr("Low")),
               Candidate(4, "Wait", JStr("Low"), JStr("High")) >>]))),
      Ok(Text("none", JsonBody([t |-> "object", solutions |->
            << [title |-> "Patch", effectiveness |-> JStr("Great")] >>]))),
      Ok(Text("none", JsonBody([t |-> "object", solutions |->
            << Candidate(1, "Odd", [t |-> "array"], JStr("Low")) >>]))) }

SlackOutcomes == {"unconfigured", "sent", "raised"}

JiraOutcomes == {"no_project_key", "created", "raised"}

\* the selected_solution argument: None, an empty dict, a candidate
SelectedSolutions == {None, Some(<<>>), Some(FallbackSolutions[2])}

EntryPoints == {"run_workflow", "run_classification_only", "run_with_selected_solution"}

(* ---------------------------- state ------------------------------------ *)
VARIABLES
    entry,                  \* the entry point that was called
    log_files,              \* AgentState: input
    selected_solution,      \* AgentState: input (Optional)
    send_notifications,     \* the send_notifications argument
    classification_result,  \* AgentState (Optional)
    aggregated_errors,      \* AgentState (Optional)
    solutions,              \* AgentState (Optional)
    notification_results,   \* AgentState (Optional)
    current_step,           \* AgentState
    errors,                 \* AgentState
    acc,                    \* process_multiple_logs: its accumulators
    idx,                    \* process_multiple_logs: index of the next file
    pc,                     \* the node to run next, "END", "done" or "crashed"
    result,                 \* the record the entry point returned (Optional)
    step_log,               \* history: every value assigned to current_step
    llm_calls,              \* history: the generation calls made, in order
    solution_requests,      \* history: the arguments of find_solutions calls
    dispatch_log,           \* history: the calls of the notification agent
    escaped,                \* an exception left a stage node
    arguments,              \* a direct call of an agent method: its arguments
    returned                \* a direct call: what each call in turn returned

vars ==
    <<entry, log_files, selected_solution, send_notifications,
      classification_result, aggregated_errors, solutions,
      notification_results, current_step, errors, acc, idx, pc, result,
      step_log, llm_calls, solution_requests, dispatch_log, escaped,
      arguments, returned>>

\* the variables of direct calls of the agents' methods, which no run of an
\* entry point touches
direct == <<arguments, returned>>

inputs == <<entry, log_files, selected_solution, send_notifications>>

\* initial_state of the three entry points, called with one of `lists`
InitWith(lists) ==
    /\ entry \in EntryPoints
    /\ log_files \in lists
    /\ selected_solution \in
          IF entry = "run_classification_only" THEN {None} ELSE SelectedSolutions
    /\ send_notifications \in
          IF entry = "run_classification_only" THEN {FALSE} ELSE BOOLEAN
    /\ classification_result = None
    /\ aggregated_errors = None
    /\ solutions = None
    /\ notification_results = None
    /\ current_step = "initialized"
    /\ errors = <<>>
    /\ acc = EmptyAcc
    /\ idx = 0
    /\ pc = "classify_errors"
    /\ result = None
    /\ step_log = <<>>
    /\ llm_calls = <<>>
    /\ solution_requests = <<>>
    /\ dispatch_log = <<>>
    /\ escaped = FALSE
    /\ arguments = None
    /\ returned = <<>>

Init == InitWith(LogFileLists)

Call(stage, agent, resp) == [stage |-> stage, agent |-> agent, raised |-> ~resp.ok]

\* classify_errors_node up to the call of process_multiple_logs
classify_errors_node ==
    /\ pc = "classify_errors"
    /\ current_step' = "classifying_errors"
    /\ step_log' = Append(step_log, "classifying_errors")
    /\ IF Len(log_files) = 0
       THEN /\ errors' = Append(errors, "No log files provided")
            /\ pc' = NextNode(entry, "classify_errors", send_notifications)
            /\ UNCHANGED <<acc, idx>>
       ELSE /\ acc' = EmptyAcc
            /\ idx' = 1
            /\ pc' = "process_multiple_logs"
            /\ UNCHANGED errors
    /\ UNCHANGED <<inputs, direct, classification_result, aggregated_errors, solutions,
                   notification_results, result, llm_calls, solution_requests,
                   dispatch_log, escaped>>

\* process_multiple_logs: one iteration of the loop over log_files; an
\* exception of the fold leaves the loop and reaches the except clause of
\* classify_errors_node
classify_file_with(responses) ==
    /\ pc = "process_multiple_logs"
    /\ LET filename == Get(log_files[idx], "filename", "unknown")
           content  == Get(log_files[idx], "content", <<>>)
           called   == classifier_calls_service(content)
       IN  \E resp \in IF called THEN responses ELSE {Ok(Text("none", Garbage))} :
             LET file_result == classify_single_log(content, filename, resp)
                 folded == IF file_result.ok
                           THEN fold_result(acc, file_result.val, filename)
                           ELSE file_result
             IN  /\ llm_calls' = IF called
                                 THEN Append(llm_calls, Call("classify", "classifier", resp))
                                 ELSE llm_calls
                 /\ IF folded.ok
                    THEN /\ acc' = folded.val
                         /\ idx' = idx + 1
                         /\ pc' = IF idx = Len(log_files) THEN "aggregate_analysis"
                                  ELSE "process_multiple_logs"
                         /\ UNCHANGED <<errors, current_step, step_log, escaped>>
                    ELSE /\ acc' = EmptyAcc
                         /\ idx' = 0
                         /\ IF IsInstance(folded.exc, NodeExcept)
                            THEN /\ errors' = Append(errors, "Classification error: " \o folded.exc)
                                 /\ current_step' = "classification_failed"
                                 /\ step_log' = Append(step_log, "classification_failed")
                                 /\ pc' = NextNode(entry, "classify_errors", send_notifications)
                                 /\ UNCHANGED escaped
                            ELSE /\ escaped' = TRUE
                                 /\ pc' = "crashed"
                                 /\ UNCHANGED <<errors, current_step, step_log>>
    /\ UNCHANGED <<inputs, direct, classification_result, aggregated_errors, solutions,
                   notification_results, result, solution_requests, dispatch_log>>

classify_file == classify_file_with(ClassifierResponses)

\* the end of process_multiple_logs (sets to lists, _aggregate_analysis, the
\* returned dict) and the rest of classify_errors_node
finish_classification ==
    /\ pc = "aggregate_analysis"
    /\ \E converted \in ConvertedFiles(acc.error_types), resp \in RollupResponses :
          /\ classification_result' =
                Some(process_result(acc, converted, aggregate_analysis(resp), log_files))
          /\ aggregated_errors' = Some(converted)
          /\ llm_calls' = Append(llm_calls, Call("classify", "rollup", resp))
    /\ current_step' = "classification_complete"
    /\ step_log' = Append(step_log, "classification_complete")
    /\ acc' = EmptyAcc
    /\ idx' = 0
    /\ pc' = NextNode(entry, "classify_errors", send_notifications)
    /\ UNCHANGED <<inputs, direct, solutions, notification_results, errors, result,
                   solution_requests, dispatch_log, escaped>>

\* find_solutions_node
find_solutions_node ==
    /\ pc = "find_solutions"
    /\ IF Falsy(classification_result)
       THEN /\ errors' = Append(errors, "No classification result available")
            /\ current_step' = "finding_solutions"
            /\ step_log' = Append(step_log, "finding_solutions")
            /\ pc' = NextNode(entry, "find_solutions", send_notifications)
            /\ UNCHANGED <<solutions, llm_calls, solution_requests, escaped>>
       ELSE IF Falsy(aggregated_errors)
       THEN /\ errors' = Append(errors, "No errors found to generate solutions for")
            /\ current_step' = "finding_solutions"
            /\ step_log' = Append(step_log, "finding_solutions")
            /\ pc' = NextNode(entry, "find_solutions", send_notifications)
            /\ UNCHANGED <<solutions, llm_calls, solution_requests, escaped>>
       ELSE \E resp \in SolutionResponses :
              LET top == top_error(aggregated_errors[1])
                  ranked == rank_solutions(find_solutions(resp))
              IN  /\ llm_calls' = Append(llm_calls, Call("solve", "solutions", resp))
                  /\ solution_requests' =
                        Append(solution_requests,
                               [error_type |-> top.error_type,
                                severity |-> Get(top, "severity", "Medium"),
                                error_details |-> top,
                                aggregated_analysis |->
                                    classification_result[1].aggregated_analysis])
                  /\ IF ranked.ok
                     THEN /\ solutions' = Some(ranked.val)
                          /\ current_step' = "solutions_found"
                          /\ step_log' = step_log \o <<"finding_solutions", "solutions_found">>
                          /\ pc' = NextNode(entry, "find_solutions", send_notifications)
                          /\ UNCHANGED <<errors, escaped>>
                     ELSE IF IsInstance(ranked.exc, NodeExcept)
                     THEN /\ errors' = Append(errors, "Solution finding error: " \o ranked.exc)
                          /\ current_step' = "solution_finding_failed"
                          /\ step_log' = step_log \o <<"finding_solutions", "solution_finding_failed">>
                          /\ pc' = NextNode(entry, "find_solutions", send_notifications)
                          /\ UNCHANGED <<solutions, escaped>>
                     ELSE /\ escaped' = TRUE
                          /\ pc' = "crashed"
                          /\ current_step' = "finding_solutions"
                          /\ step_log' = Append(step_log, "finding_solutions")
                          /\ UNCHANGED <<solutions, errors>>
    /\ UNCHANGED <<inputs, direct, classification_result, aggregated_errors,
                   notification_results, acc, idx, result, dispatch_log>>

\* causes of send_notifications_node: key_findings, else the top error
causes_of(key_findings, top) ==
    IF Len(key_findings) > 0
    THEN [i \in 1..Len(key_findings) |->
            [title |-> key_findings[i], description |-> key_findings[i]]]
    ELSE << [title |-> top.error_type,
             description |-> "Error occurred " \o ToString(Get(top, "count", 0)) \o " times"] >>

\* the statements of send_notifications_node after the selected_solution
\* test, up to the dispatch: the exception they raise, or the dispatch to make
notification_body ==
    IF classification_result = None THEN Raise("AttributeError")
    ELSE LET aggregated_analysis == classification_result[1].aggregated_analysis
         IN  IF Falsy(aggregated_errors) THEN Ok("skip")
             ELSE IF aggregated_analysis.t # "object" THEN Raise("AttributeError")
             ELSE Ok("dispatch")

\* send_notifications_node
send_notifications_node ==
    /\ pc = "send_notifications"
    /\ IF Falsy(selected_solution)
       THEN /\ errors' = Append(errors, "No solution selected for notification")
            /\ current_step' = "notification_skipped"
            /\ step_log' = step_log \o <<"sending_notifications", "notification_skipped">>
            /\ pc' = NextNode(entry, "send_notifications", send_notifications)
            /\ UNCHANGED <<notification_results, dispatch_log, escaped>>
       ELSE IF ~notification_body.ok
       THEN IF IsInstance(notification_body.exc, NodeExcept)
            THEN /\ errors' = Append(errors, "Notification error: " \o notification_body.exc)
                 /\ current_step' = "notification_failed"
                 /\ step_log' = step_log \o <<"sending_notifications", "notification_failed">>
                 /\ pc' = NextNode(entry, "send_notifications", send_notifications)
                 /\ UNCHANGED <<notification_results, dispatch_log, escaped>>
            ELSE /\ escaped' = TRUE
                 /\ pc' = "crashed"
                 /\ current_step' = "sending_notifications"
                 /\ step_log' = Append(step_log, "sending_notifications")
                 /\ UNCHANGED <<notification_results, dispatch_log, errors>>
       ELSE IF notification_body.val = "skip"
       THEN /\ errors' = Append(errors, "No errors to notify about")
            /\ current_step' = "notification_skipped"
            /\ step_log' = step_log \o <<"sending_notifications", "notification_skipped">>
            /\ pc' = NextNode(entry, "send_notifications", send_notifications)
            /\ UNCHANGED <<notification_results, dispatch_log, escaped>>
       ELSE \E slack \in SlackOutcomes, jira \in JiraOutcomes :
              LET top == top_error(aggregated_errors[1])
                  analysis == classification_result[1].aggregated_analysis
              IN  /\ notification_results' = Some(agent_send_notifications(slack, jira))
                  /\ dispatch_log' =
                        Append(dispatch_log,
                               [error_type |-> top.error_type,
                                severity |-> Get(top, "severity", "Medium"),
                                causes |-> causes_of(Get(analysis, "key_findings", <<>>), top),
                                selected_solution |-> selected_solution[1],
                                slack |-> slack, jira |-> jira])
                  /\ current_step' = "notifications_sent"
                  /\ step_log' = step_log \o <<"sending_notifications", "notifications_sent">>
                  /\ pc' = NextNode(entry, "send_notifications", send_notifications)
                  /\ UNCHANGED <<errors, escaped>>
    /\ UNCHANGED <<inputs, direct, classification_result, aggregated_errors, solutions,
                   acc, idx, result, llm_calls, solution_requests>>

\* variant: success derived from the last step
run_workflow_result_bystep ==
    [classification_result |-> classification_result,
     aggregated_errors |-> aggregated_errors,
     solutions |-> solutions,
     selected_solution |-> selected_solution,
     notification_results |-> IF send_notifications THEN notification_results ELSE None,
     current_step |-> current_step,
     errors |-> errors,
     success |-> (current_step = "notifications_sent")]

\* variant: notification_results returned as stored
run_workflow_result_unmasked ==
    [classification_result |-> classification_result,
     aggregated_errors |-> aggregated_errors,
     solutions |-> solutions,
     selected_solution |-> selected_solution,
     notification_results |-> notification_results,
     current_step |-> current_step,
     errors |-> errors,
     success |-> (Len(errors) = 0)]

\* the record run_workflow returns
run_workflow_result ==
    [classification_result |-> classification_result,
     aggregated_errors |-> aggregated_errors,
     solutions |-> solutions,
     selected_solution |-> selected_solution,
     notification_results |-> IF send_notifications THEN notification_results ELSE None,
     current_step |-> current_step,
     errors |-> errors,
     success |-> (Len(errors) = 0)]

\* the record run_classification_only returns
run_classification_only_result ==
    [classification_result |-> classification_result,
     aggregated_errors |-> aggregated_errors,
     current_step |-> current_step,
     errors |-> errors,
     success |-> (Len(errors) = 0)]

\* the record run_with_selected_solution returns
run_with_selected_solution_result ==
    [classification_result |-> classification_result,
     aggregated_errors |-> aggregated_errors,
     selected_solution |-> selected_solution,
     notification_results |-> notification_results,
     current_step |-> current_step,
     errors |-> errors,
     success |-> (Len(errors) = 0)]

\* the return statement of the entry point
return_result ==
    /\ pc = "END"
    /\ result' = Some(CASE entry = "run_workflow" -> run_workflow_result
                        [] entry = "run_classification_only" -> run_classification_only_result
                        [] entry = "run_with_selected_solution" -> run_with_selected_solution_result)
    /\ pc' = "done"
    /\ UNCHANGED <<inputs, direct, classification_result, aggregated_errors, solutions,
                   notification_results, current_step, errors, acc, idx,
                   step_log, llm_calls, solution_requests, dispatch_log, escaped>>

Next ==
    \/ classify_errors_node
    \/ classify_file
    \/ finish_classification
    \/ find_solutions_node
    \/ send_notifications_node
    \/ return_result

Spec == Init /\ [][Next]_vars

(* ---------------------------- properties ------------------------------- *)
Range(seq) == {seq[i] : i \in 1..Len(seq)}

InProgressSteps == {"classifying_errors", "finding_solutions", "sending_notifications"}

FailedSteps == {"classification_failed", "solution_finding_failed", "notification_failed"}

NotifyOutcomes == {"notifications_sent", "notification_failed", "notification_skipped"}

\* the stage a current_step value belongs to (0: before the first stage)
StageOf(step) ==
    CASE step \in {"classifying_errors", "classification_complete",
                   "classification_failed"} -> 1
      [] step \in {"finding_solutions", "solutions_found",
                   "solution_finding_failed"} -> 2
      [] step \in {"sending_notifications"} \cup NotifyOutcomes -> 3
      [] OTHER -> 0

Returned == pc = "done"

\* C1: whatever the inputs, the generation service and the dispatcher do, no
\* exception leaves a stage node: control is always at a node of the entry
\* point, inside the loop over the files, or at the return, and the run ends
\* with a result record.
C1_NoExceptionPastStage ==
    /\ ~escaped
    /\ pc \in {"classify_errors", "process_multiple_logs", "aggregate_analysis",
               "find_solutions", "send_notifications", "END", "done"}
    /\ (pc = "process_multiple_logs" => idx \in 1..Len(log_files))
    /\ (Returned <=> result # None)

\* C1 witness: a returned full run in which the classify stage and the notify
\* stage both caught an exception
C1_Witness ==
    /\ Returned
    /\ entry = "run_workflow"
    /\ result[1].errors = <<"Classification error: TypeError",
                            "No classification result available",
                            "Notification error: AttributeError">>

\* C2: in the record every entry point returns, success is true exactly when
\* the errors list, which is the state's errors list at the end of the run,
\* is empty.
C2_SuccessIffNoErrors ==
    Returned =>
        /\ result[1].errors = errors
        /\ (result[1].success <=> Len(result[1].errors) = 0)

\* C2 witness: a full run returned with success after all three stages
C2_Witness ==
    /\ Returned
    /\ entry = "run_workflow"
    /\ result[1].success
    /\ result[1].current_step = "notifications_sent"

\* C3: in a full run the stages of the values current_step takes never
\* decrease, each in-progress marker is taken at most once, and at the return
\* the in-progress markers taken are classifying_errors, finding_solutions,
\* sending_notifications in this order, also after a failed stage.
C3_StagesInOrder ==
    entry = "run_workflow" =>
        /\ \A i, j \in 1..Len(step_log) :
              i < j => StageOf(step_log[i]) <= StageOf(step_log[j])
        /\ \A i, j \in 1..Len(step_log) :
              (i # j /\ step_log[i] \in InProgressSteps) => step_log[i] # step_log[j]
        /\ (step_log # <<>> => current_step = step_log[Len(step_log)])
        /\ (Returned =>
              SelectSeq(step_log, LAMBDA m : m \in InProgressSteps)
                = <<"classifying_errors", "finding_solutions", "sending_notifications">>)

\* C3 witness: a returned full run whose classify stage failed and whose later
\* stages still ran
C3_Witness ==
    /\ Returned
    /\ entry = "run_workflow"
    /\ step_log = <<"classifying_errors", "classification_failed",
                    "finding_solutions",
                    "sending_notifications", "notification_skipped">>

\* C4: a full run returns with current_step notifications_sent,
\* notification_failed or notification_skipped.
C4_FullRunEndsInNotifyOutcome ==
    (Returned /\ entry = "run_workflow") => result[1].current_step \in NotifyOutcomes

\* C4 witness: a full run without notifications requested that returns after
\* the solve stage found no classification result
C4_Witness ==
    /\ Returned
    /\ entry = "run_workflow"
    /\ ~send_notifications
    /\ "No classification result available" \in Range(errors)
    /\ result[1].current_step = "notification_failed"

\* C5: a stage that finds its required input absent appends its error
\* string, is marked with its failed or skipped marker, and leaves its output
\* fields null.
C5_InputMissingMarksStage ==
    /\ "No log files provided" \in Range(errors) =>
          /\ "classification_failed" \in Range(step_log)
          /\ classification_result = None
          /\ aggregated_errors = None
    /\ ("No classification result available" \in Range(errors)
        \/ "No errors found to generate solutions for" \in Range(errors)) =>
          /\ "solution_finding_failed" \in Range(step_log)
          /\ solutions = None
    /\ ("No solution selected for notification" \in Range(errors)
        \/ "No errors to notify about" \in Range(errors)) =>
          /\ "notification_skipped" \in Range(step_log)
          /\ notification_results = None

\* a generation call of the stage raised (for "notify": a channel raised)
ServiceFailureIn(stage) ==
    \/ \E i \in 1..Len(llm_calls) : llm_calls[i].stage = stage /\ llm_calls[i].raised
    \/ /\ stage = "notify"
       /\ \E i \in 1..Len(dispatch_log) :
             dispatch_log[i].slack = "raised" \/ dispatch_log[i].jira = "raised"

FailedStepOf(stage) ==
    CASE stage = "classify" -> "classification_failed"
      [] stage = "solve"    -> "solution_finding_failed"
      [] stage = "notify"   -> "notification_failed"

\* C6 as stated: a run in which a generation call or a dispatch call raised
\* has that stage marked failed, an entry in errors and success false.
C6_ServiceFailureFailsStage ==
    Returned =>
        \A stage \in {"classify", "solve", "notify"} :
            ServiceFailureIn(stage) =>
                /\ FailedStepOf(stage) \in Range(step_log)
                /\ Len(result[1].errors) > 0
                /\ ~result[1].success

\* the step made a generation call or a dispatch that raised
ServiceFailureStep ==
    \/ /\ Len(llm_calls') = Len(llm_calls) + 1
       /\ llm_calls'[Len(llm_calls')].raised
    \/ /\ Len(dispatch_log') = Len(dispatch_log) + 1
       /\ \/ dispatch_log'[Len(dispatch_log')].slack = "raised"
          \/ dispatch_log'[Len(dispatch_log')].jira = "raised"

\* where a raised call ends up: a FileClassification of status error, the
\* fallback analysis, the single degraded candidate, a failed channel entry
ServiceFailureAbsorbed ==
    /\ (Len(llm_calls') > Len(llm_calls)
        /\ llm_calls'[Len(llm_calls')].agent = "classifier") =>
          acc'.all_results[Len(acc'.all_results)].status = "error"
    /\ (Len(llm_calls') > Len(llm_calls)
        /\ llm_calls'[Len(llm_calls')].agent = "rollup") =>
          /\ classification_result'[1].aggregated_analysis = AnalysisFallback("ServiceError")
          /\ current_step' = "classification_complete"
    /\ (Len(llm_calls') > Len(llm_calls)
        /\ llm_calls'[Len(llm_calls')].agent = "solutions") =>
          /\ solutions' = Some(DegradedSolutions("ServiceError"))
          /\ current_step' = "solutions_found"
    /\ Len(dispatch_log') > Len(dispatch_log) =>
          /\ current_step' = "notifications_sent"
          /\ ~notification_results'[1].all_success

\* C6 amended: a generation call or dispatch call that raises is absorbed by
\* the component that made it; the step adds nothing to errors and does not
\* mark the stage failed.
C6_ServiceFailureAbsorbed ==
    [][ServiceFailureStep =>
          /\ errors' = errors
          /\ current_step' \notin FailedSteps
          /\ ServiceFailureAbsorbed]_vars

\* C6 witness: a run that returned success although its classifier call and
\* its rollup call both raised
C6_Witness ==
    /\ Returned
    /\ result[1].success
    /\ \E i, j \in 1..Len(llm_calls) :
          /\ llm_calls[i].agent = "classifier" /\ llm_calls[i].raised
          /\ llm_calls[j].agent = "rollup" /\ llm_calls[j].raised

\* C7: the record a full run or a resume run returns with send_notifications
\* false has notification_results null.
C7_NoResultsWithoutFlag ==
    (Returned /\ entry \in {"run_workflow", "run_with_selected_solution"}
              /\ ~send_notifications) =>
        result[1].notification_results = None

\* C7 witness: a full run with the flag false whose notify stage dispatched
\* and stored results, returned with notification_results null
C7_Witness ==
    /\ Returned
    /\ entry = "run_workflow"
    /\ ~send_notifications
    /\ notification_results # None
    /\ result[1].notification_results = None

\* C8: in a resume run stage 1 runs, stage 2 never does (no finding_solutions
\* step, solutions null, no solution-generation call), stage 3 runs exactly
\* when send_notifications is true, and with the flag false the dispatcher is
\* never invoked and the run returns the current_step stage 1 left.
C8_ResumeSkipsSolve ==
    entry = "run_with_selected_solution" =>
        /\ \A i \in 1..Len(step_log) : StageOf(step_log[i]) # 2
        /\ solutions = None
        /\ solution_requests = <<>>
        /\ \A i \in 1..Len(llm_calls) : llm_calls[i].agent # "solutions"
        /\ (~send_notifications =>
              /\ dispatch_log = <<>>
              /\ \A i \in 1..Len(step_log) : StageOf(step_log[i]) # 3)
        /\ (Returned =>
              /\ step_log[1] = "classifying_errors"
              /\ ("sending_notifications" \in Range(step_log) <=> send_notifications)
              /\ (~send_notifications => StageOf(result[1].current_step) = 1))

\* C8 witness: a resume run with the flag false and a selected solution,
\* returned at classification_complete with aggregated errors to notify about
C8_Witness ==
    /\ Returned
    /\ entry = "run_with_selected_solution"
    /\ ~send_notifications
    /\ ~Falsy(selected_solution)
    /\ ~Falsy(aggregated_errors)
    /\ result[1].current_step = "classification_complete"

\* C9: run_classification_only on an empty log_files sequence returns errors
\* containing "No log files provided", success false, classification_result
\* and aggregated_errors null, a failed marker as current_step, and makes no
\* generation call.
C9_EmptyInputClassificationOnly ==
    (Returned /\ entry = "run_classification_only" /\ log_files = <<>>) =>
        /\ "No log files provided" \in Range(result[1].errors)
        /\ ~result[1].success
        /\ result[1].classification_result = None
        /\ result[1].aggregated_errors = None
        /\ result[1].current_step \in FailedSteps
        /\ result[1].current_step # "classification_complete"
        /\ llm_calls = <<>>

(* ---------------------------- aggregation runs -------------------------- *)
\* run_classification_only with the classifier responses of AggregatorResponses
InitAggregate ==
    /\ InitWith(ListsOver(LogFiles))
    /\ entry = "run_classification_only"

aggregate_file == classify_file_with(AggregatorResponses)

NextAggregate ==
    \/ classify_errors_node
    \/ aggregate_file
    \/ finish_classification
    \/ return_result

SpecAggregate == InitAggregate /\ [][NextAggregate]_vars

\* the ErrorRecords of all FileClassifications, in order
RECURSIVE AllRecords(_)
AllRecords(results) ==
    IF Len(results) = 0 THEN <<>>
    ELSE Get(Head(results), "errors", <<>>) \o AllRecords(Tail(results))

\* the sum of frequency (1 when absent) over the records of the given types
RECURSIVE FrequencySum(_, _)
FrequencySum(records, types) ==
    IF Len(records) = 0 THEN 0
    ELSE (IF Get(Head(records), "error_type", "Unknown") \in types
          THEN Get(Head(records), "frequency", JNum(1)).n
          ELSE 0) + FrequencySum(Tail(records), types)

RECURSIVE CountSum(_)
CountSum(items) ==
    IF Len(items) = 0 THEN 0 ELSE Head(items).count + CountSum(Tail(items))

TypesOf(records) == {Get(records[i], "error_type", "Unknown") : i \in 1..Len(records)}

CountsMatchFrequencies(items, results) ==
    LET records == AllRecords(results)
    IN  /\ \A i \in 1..Len(items) :
              items[i].count = FrequencySum(records, {items[i].error_type})
        /\ \A i, j \in 1..Len(items) :
              i # j => items[i].error_type # items[j].error_type
        /\ CountSum(items) = FrequencySum(records, TypesOf(records))

\* C10: after every file folded in by process_multiple_logs, and in the dict
\* it returns, each aggregated entry's count is the sum of frequency (1 when
\* absent) over all ErrorRecords of its error_type in all FileClassifications,
\* and the counts add up to the sum of frequency over every ErrorRecord.
C10_CountsAreFrequencySums ==
    /\ pc \in {"process_multiple_logs", "aggregate_analysis"} =>
          CountsMatchFrequencies(acc.error_types, acc.all_results)
    /\ classification_result # None =>
          /\ CountsMatchFrequencies(classification_result[1].aggregated_errors,
                                    classification_result[1].file_results)
          /\ aggregated_errors = Some(classification_result[1].aggregated_errors)

\* C10 witness: two files classified, ConnectionTimeout 3 times in the first
\* and once in the second, NullPointerException 5 times in the second
C10_Witness ==
    /\ classification_result # None
    /\ Len(classification_result[1].file_results) = 2
    /\ \E i, j \in 1..Len(aggregated_errors[1]) :
          /\ aggregated_errors[1][i].error_type = "ConnectionTimeout"
          /\ aggregated_errors[1][i].count = 4
          /\ Range(aggregated_errors[1][i].files) = {"A", "B"}
          /\ aggregated_errors[1][j].error_type = "NullPointerException"
          /\ aggregated_errors[1][j].count = 5
          /\ Range(aggregated_errors[1][j].files) = {"B"}

\* the filenames of the FileClassifications holding a record of the type
FilesOfType(results, error_type) ==
    {results[i].filename :
        i \in {n \in 1..Len(results) :
                 error_type \in TypesOf(Get(results[n], "errors", <<>>))}}

\* C11: during the fold of process_multiple_logs each entry's files set, and
\* in the dict it returns each entry's files list, holds exactly the filenames
\* whose FileClassification has at least one ErrorRecord of the entry's
\* error_type, each filename once.
C11_FilesAreContributors ==
    /\ pc \in {"process_multiple_logs", "aggregate_analysis"} =>
          \A i \in 1..Len(acc.error_types) :
              acc.error_types[i].files =
                  FilesOfType(acc.all_results, acc.error_types[i].error_type)
    /\ classification_result # None =>
          \A i \in 1..Len(classification_result[1].aggregated_errors) :
              LET item == classification_result[1].aggregated_errors[i]
              IN  /\ Range(item.files) =
                        FilesOfType(classification_result[1].file_results,
                                    item.error_type)
                  /\ Cardinality(Range(item.files)) = Len(item.files)

\* C11 witness: file A gave two ConnectionTimeout records, file B one
\* ConnectionTimeout and one NullPointerException record; the returned entries
\* list A and B once each for the first type and B alone for the second
C11_Witness ==
    /\ classification_result # None
    /\ Len(classification_result[1].file_results) = 2
    /\ classification_result[1].file_results[1].filename = "A"
    /\ classification_result[1].file_results[1].errors =
          <<ErrorRecords.ctbare, ErrorRecords.ct1>>
    /\ classification_result[1].file_results[2].filename = "B"
    /\ \E i, j \in 1..Len(aggregated_errors[1]) :
          /\ aggregated_errors[1][i].error_type = "ConnectionTimeout"
          /\ Len(aggregated_errors[1][i].files) = 2
          /\ Range(aggregated_errors[1][i].files) = {"A", "B"}
          /\ aggregated_errors[1][j].error_type = "NullPointerException"
          /\ aggregated_errors[1][j].files = <<"B">>

\* C12: every ErrorRecord of every FileClassification, and every aggregated
\* entry, carries a severity that is Critical, High, Medium or Low.
C12_SeveritiesInEnum ==
    /\ \A i \in 1..Len(acc.all_results) :
          \A k \in 1..Len(Get(acc.all_results[i], "errors", <<>>)) :
              LET record == acc.all_results[i].errors[k]
              IN  "severity" \in DOMAIN record /\ record.severity \in Severities
    /\ \A i \in 1..Len(acc.error_types) :
          acc.error_types[i].severity \in Severities
    /\ aggregated_errors # None =>
          \A i \in 1..Len(aggregated_errors[1]) :
              aggregated_errors[1][i].severity \in Severities

\* C13: the error_type, error_details and severity every find_solutions call
\* receives are those of an aggregated entry whose count no other entry
\* exceeds.
C13_PrimaryErrorHasMaxCount ==
    \A r \in 1..Len(solution_requests) :
        /\ aggregated_errors # None
        /\ \E i \in 1..Len(aggregated_errors[1]) :
              /\ aggregated_errors[1][i] = solution_requests[r].error_details
              /\ aggregated_errors[1][i].error_type = solution_requests[r].error_type
              /\ aggregated_errors[1][i].severity = solution_requests[r].severity
              /\ \A j \in 1..Len(aggregated_errors[1]) :
                    aggregated_errors[1][j].count <= aggregated_errors[1][i].count

\* C13 witness: entries ConnectionTimeout (count 4, first) and
\* NullPointerException (count 5); the generator was asked about the second
C13_Witness ==
    /\ Len(solution_requests) = 1
    /\ Len(aggregated_errors[1]) = 2
    /\ aggregated_errors[1][1].error_type = "ConnectionTimeout"
    /\ aggregated_errors[1][1].count = 4
    /\ aggregated_errors[1][2].error_type = "NullPointerException"
    /\ aggregated_errors[1][2].count = 5
    /\ solution_requests[1].error_type = "NullPointerException"
    /\ solution_requests[1].severity = "High"

(* ---------------------------- direct calls: solutions ------------------- *)
\* SolutionAgent's two methods called on their own: find_solutions on a
\* response of the generation service followed by rank_solutions, as the
\* solve stage does, and rank_solutions on a list of candidates.

\* candidates of the generation service: the three requested ranks, a
\* repeated rank with an unknown effectiveness and no complexity, a rank out
\* of range, no rank and no effectiveness
CandidatePool ==
    { Candidate(1, "Tune pool", JStr("High"), JStr("Low")),
      Candidate(2, "Reboot", JStr("Low"), JStr("High")),
      Candidate(3, "Refactor", JStr("Medium"), JStr("Medium")),
      [rank |-> 1, title |-> "Patch", effectiveness |-> JStr("Great")],
      Candidate(7, "Rollback", JStr("High"), JStr("High")),
      [title |-> "Retry", complexity |-> JStr("Low")] }

CandidateLists == UNION {[1..n -> CandidatePool] : n \in 0..MaxCandidates}

\* what llm.invoke can do for find_solutions: the responses of the pipeline
\* runs, a JSON array, an object without solutions, fenced texts that are not
\* JSON, and an object with every list of candidates
GeneratorResponses ==
    SolutionResponses \cup
    { Ok(Text("none", JsonBody([t |-> "array"]))),
      Ok(Text("bare", JsonBody([t |-> "object"]))),
      Ok(Text("json", Garbage)),
      Ok(Text("bare", Garbage)) } \cup
    { Ok(Text("none", JsonBody([t |-> "object", solutions |-> l]))) :
        l \in CandidateLists }

\* the agents constructed and no entry point called
Constructed ==
    /\ entry = "none"
    /\ log_files = <<>>
    /\ selected_solution = None
    /\ send_notifications = FALSE
    /\ classification_result = None
    /\ aggregated_errors = None
    /\ solutions = None
    /\ notification_results = None
    /\ current_step = "initialized"
    /\ errors = <<>>
    /\ acc = EmptyAcc
    /\ idx = 0
    /\ pc = "idle"
    /\ result = None
    /\ step_log = <<>>
    /\ llm_calls = <<>>
    /\ solution_requests = <<>>
    /\ dispatch_log = <<>>
    /\ escaped = FALSE

run_state ==
    <<inputs, classification_result, aggregated_errors, solutions,
      notification_results, current_step, errors, acc, idx, pc, result,
      step_log, llm_calls, solution_requests, dispatch_log, escaped>>

InitSolutions ==
    /\ Constructed
    /\ arguments \in
          {Some([method |-> "find_solutions", response |-> r]) :
              r \in GeneratorResponses}
          \cup {Some([method |-> "rank_solutions", solutions |-> l]) :
                  l \in CandidateLists}
    /\ returned = <<>>

\* solution_agent.find_solutions(...) with the service answering `response`
find_solutions_call ==
    /\ pc = "idle"
    /\ arguments # None
    /\ arguments[1].method = "find_solutions"
    /\ returned = <<>>
    /\ returned' = <<Ok(find_solutions(arguments[1].response))>>
    /\ UNCHANGED <<run_state, arguments>>

\* the positions of returned that hold what rank_solutions returned
RankCalls ==
    IF arguments = None THEN {}
    ELSE IF arguments[1].method = "rank_solutions" THEN 1..Len(returned)
    ELSE IF arguments[1].method = "find_solutions" THEN 2..Len(returned)
    ELSE {}

\* the list the call at position r was given
RankInput(r) == IF r = 1 THEN arguments[1].solutions ELSE returned[r - 1].val

\* solution_agent.rank_solutions(solutions), on the list given or on the list
\* the call before returned
rank_solutions_call ==
    /\ pc = "idle"
    /\ arguments # None
    /\ arguments[1].method \in {"find_solutions", "rank_solutions"}
    /\ returned = <<>> => arguments[1].method = "rank_solutions"
    /\ returned # <<>> => returned[Len(returned)].ok
    /\ Cardinality(RankCalls) < MaxRankings
    /\ returned' = Append(returned, rank_solutions(RankInput(Len(returned) + 1)))
    /\ UNCHANGED <<run_state, arguments>>

NextSolutions ==
    \/ find_solutions_call
    \/ rank_solutions_call

SpecSolutions == InitSolutions /\ [][NextSolutions]_vars

\* the response is the text of a JSON object
ParsesAsObject(resp) ==
    /\ resp.ok
    /\ resp.val.body.json
    /\ resp.val.body.val.t = "object"

\* the candidates the service returned
GivenCandidates(resp) == Get(resp.val.body.val, "solutions", <<>>)

GeneratorCall ==
    /\ arguments # None
    /\ arguments[1].method = "find_solutions"
    /\ returned # <<>>

IsPlaceholder(sol, n) ==
    /\ sol.title = "Alternative Solution " \o ToString(n)
    /\ sol.rank = n
    /\ sol.effectiveness = JStr("Medium")
    /\ sol.complexity = JStr("Medium")
    /\ Len(sol.steps) = 3
    /\ sol.risk_level = "Medium"

\* C14: when the try block of find_solutions runs to its return (the response
\* is the text of a JSON object), the list returned has exactly 3 candidates
\* whatever the number k of candidates in the response: for k < 3 the k
\* candidates and the placeholders "Alternative Solution N", N = k+1..3, for
\* k > 3 the first 3 candidates of the response.
C14_ExactlyThreeCandidates ==
    (GeneratorCall /\ ParsesAsObject(arguments[1].response)) =>
        LET given == GivenCandidates(arguments[1].response)
            out == returned[1].val
        IN  /\ Len(out) = 3
            /\ \E p \in Permutations(1..3) :
                  /\ \A i \in 1..3 : i <= Len(given) => out[p[i]] = given[i]
                  /\ \A n \in 1..3 : n > Len(given) => IsPlaceholder(out[p[n]], n)

\* C14 witness: the service returned one candidate, without a rank; it is
\* returned together with Alternative Solution 2 and Alternative Solution 3
C14_Witness ==
    /\ GeneratorCall
    /\ ParsesAsObject(arguments[1].response)
    /\ GivenCandidates(arguments[1].response)
          = << [title |-> "Retry", complexity |-> JStr("Low")] >>
    /\ returned[1].val[1].title = "Alternative Solution 2"
    /\ returned[1].val[2].title = "Alternative Solution 3"
    /\ returned[1].val[3].title = "Retry"

\* every candidate has a rank, the ranks are in 1..3 and no two are equal
RanksArePermutation(sols) ==
    /\ \A i \in 1..Len(sols) : "rank" \in DOMAIN sols[i] /\ sols[i].rank \in 1..3
    /\ \A i, j \in 1..Len(sols) : i # j => sols[i].rank # sols[j].rank

\* C15: whatever ranks the candidates of a JSON object response carry, the 3
\* candidates find_solutions returns, and the same list after rank_solutions,
\* carry the ranks 1, 2, 3, each once.
C15_RanksArePermutation ==
    (GeneratorCall /\ ParsesAsObject(arguments[1].response)) =>
        \A r \in 1..Len(returned) :
            returned[r].ok => RanksArePermutation(returned[r].val)

\* the scoring table of the ranker
Weight(v, high, low) ==
    IF v.t = "str" /\ v.s = "High" THEN high
    ELSE IF v.t = "str" /\ v.s = "Low" THEN low
    ELSE 2

Score(sol) ==
    2 * Weight(Get(sol, "effectiveness", JStr("Medium")), 3, 1)
      + Weight(Get(sol, "complexity", JStr("Medium")), 1, 3)

\* effectiveness and complexity are strings where present
ScalarValued(sols) ==
    \A i \in 1..Len(sols) :
        /\ Get(sols[i], "effectiveness", JStr("Medium")).t = "str"
        /\ Get(sols[i], "complexity", JStr("Medium")).t = "str"

\* out is the list in reordered, scores non-increasing, equal scores in the
\* order of in
StablyRanked(in, out) ==
    /\ Len(out) = Len(in)
    /\ \E p \in Permutations(1..Len(in)) :
          /\ \A i \in 1..Len(in) : out[i] = in[p[i]]
          /\ \A i, j \in 1..Len(in) :
                i < j => \/ Score(out[i]) > Score(out[j])
                         \/ Score(out[i]) = Score(out[j]) /\ p[i] < p[j]

\* C16: rank_solutions returns the candidates it was given, every field as
\* it was, reordered so that 2 * effectiveness weight + complexity weight
\* never increases along the list and candidates of equal score keep the
\* order they were given in.
C16_RankerIsStableSortByScore ==
    \A r \in RankCalls :
        /\ ScalarValued(RankInput(r)) => returned[r].ok
        /\ returned[r].ok => StablyRanked(RankInput(r), returned[r].val)

\* C16 witness: given Rollback (score 7), Retry (score 7, no effectiveness),
\* Patch (score 6, unknown effectiveness) and Tune pool (score 9), the ranker
\* returned Tune pool, Rollback, Retry, Patch
C16_Witness ==
    /\ arguments # None
    /\ arguments[1].method = "rank_solutions"
    /\ Len(arguments[1].solutions) = 4
    /\ arguments[1].solutions[1].title = "Rollback"
    /\ arguments[1].solutions[2].title = "Retry"
    /\ arguments[1].solutions[3].title = "Patch"
    /\ arguments[1].solutions[4].title = "Tune pool"
    /\ returned # <<>>
    /\ returned[1].ok
    /\ returned[1].val[1].title = "Tune pool"
    /\ returned[1].val[2].title = "Rollback"
    /\ returned[1].val[3].title = "Retry"
    /\ returned[1].val[4].title = "Patch"
    /\ returned[1].val[1].rank = 1
    /\ returned[1].val[2].rank = 7

SortedByScore(sols) ==
    \A i, j \in 1..Len(sols) : i < j => Score(sols[i]) >= Score(sols[j])

\* C17: rank_solutions applied to what rank_solutions returned returns the
\* same list in the same order, and applied to a list whose scores never
\* increase it returns that list in the same order.
C17_RankerIdempotent ==
    \A r \in RankCalls :
        /\ (r - 1 \in RankCalls /\ returned[r - 1].ok) =>
              returned[r] = returned[r - 1]
        /\ (SortedByScore(RankInput(r)) /\ returned[r].ok) =>
              returned[r].val = RankInput(r)

\* C17 witness: a list with two candidates of equal score behind a candidate
\* of lower score was ranked twice; the first call moved the candidates, the
\* second returned the same list
C17_Witness ==
    /\ arguments # None
    /\ arguments[1].method = "rank_solutions"
    /\ Len(returned) = 2
    /\ returned[1].ok
    /\ returned[2].ok
    /\ returned[1].val # arguments[1].solutions
    /\ returned[2].val = returned[1].val
    /\ \E i \in 1..(Len(returned[1].val) - 1) :
          /\ Score(returned[1].val[i]) = Score(returned[1].val[i + 1])
          /\ returned[1].val[i] # returned[1].val[i + 1]

(* ---------------------------- direct calls: classifier ------------------ *)
\* ErrorClassificationAgent.classify_single_log called on its own.

\* a log with one matching line more than the prompt takes
LongLog == [i \in 1..(ContextLimit + 1) |-> IF i = 2 THEN LineTimeout ELSE LineErr]

\* the log texts: empty, without a matching line, with one, with two among
\* others, with more than the prompt takes
LogContents == {<<>>, FileQ.content, FileB.content, FileA.content, LongLog}

Filenames == {"A", "unknown"}

\* the classifier responses: the ones of the aggregation runs and an object
\* that brings its own filename and status
ClassifierCallResponses ==
    AggregatorResponses \cup
    { Ok(Text("json", JsonBody([t |-> "object", error_count |-> JNum(1),
                                errors |-> <<ErrorRecords.ct1>>,
                                filename |-> "Z", status |-> "no_errors"]))) }

InitClassifier ==
    /\ Constructed
    /\ arguments \in
          {Some([method |-> "classify_single_log", log_content |-> c,
                 filename |-> f, response |-> r]) :
              c \in LogContents, f \in Filenames, r \in ClassifierCallResponses}
    /\ returned = <<>>

\* classification_agent.classify_single_log(log_content, filename) with the
\* service answering `response` if it is called
classify_single_log_call ==
    /\ pc = "idle"
    /\ arguments # None
    /\ arguments[1].method = "classify_single_log"
    /\ returned = <<>>
    /\ returned' = <<classify_single_log(arguments[1].log_content,
                                         arguments[1].filename,
                                         arguments[1].response)>>
    /\ llm_calls' =
          IF classifier_calls_service(arguments[1].log_content)
          THEN Append(llm_calls,
                      [stage |-> "classify", agent |-> "classifier",
                       raised |-> ~arguments[1].response.ok,
                       error_context |-> error_context(arguments[1].log_content)])
          ELSE llm_calls
    /\ UNCHANGED <<inputs, classification_result, aggregated_errors, solutions,
                   notification_results, current_step, errors, acc, idx, pc,
                   result, step_log, solution_requests, dispatch_log, escaped,
                   arguments>>

NextClassifier == classify_single_log_call

SpecClassifier == InitClassifier /\ [][NextClassifier]_vars

ClassifierCall ==
    /\ arguments # None
    /\ arguments[1].method = "classify_single_log"
    /\ returned # <<>>

Statuses == {"no_errors", "analyzed", "parse_error", "error"}

\* C18: whatever the log text, the filename and the generation service do
\* (JSON of any shape, text that is no JSON, an exception), classify_single_log
\* returns, and what it returns carries the filename it was given and a
\* status among no_errors, analyzed, parse_error, error.
C18_ClassifierNeverRaises ==
    ClassifierCall =>
        /\ returned[1].ok
        /\ returned[1].val.filename = arguments[1].filename
        /\ returned[1].val.status \in Statuses

\* C18 witness: the service was called and raised; the call returned a
\* FileClassification of status error for the file
C18_Witness ==
    /\ ClassifierCall
    /\ llm_calls # <<>>
    /\ llm_calls[1].raised
    /\ returned[1].ok
    /\ returned[1].val.status = "error"
    /\ returned[1].val.filename = "unknown"

\* the service was called and answered with text that is no JSON
NonJsonAnswer ==
    /\ ClassifierCall
    /\ llm_calls # <<>>
    /\ arguments[1].response.ok
    /\ ~arguments[1].response.val.body.json

\* C19: when the service answers the classifier with text that is no JSON,
\* the FileClassification has status parse_error, an error_count equal to the
\* number of lines the extractor returned for the text, and one ErrorRecord,
\* of error_type "Parse Error" and severity Medium.
C19_ParseErrorCountsExtractedLines ==
    NonJsonAnswer =>
        /\ returned[1].ok
        /\ returned[1].val.status = "parse_error"
        /\ returned[1].val.error_count =
              JNum(Len(extract_error_lines(arguments[1].log_content)))
        /\ Len(returned[1].val.errors) = 1
        /\ returned[1].val.errors[1].error_type = "Parse Error"
        /\ returned[1].val.errors[1].severity = "Medium"

\* C19 witness: a text with 31 matching lines, of which 30 went into the
\* prompt, answered with text that is no JSON: error_count is 31
C19_Witness ==
    /\ NonJsonAnswer
    /\ Len(llm_calls[1].error_context) = ContextLimit
    /\ returned[1].val.status = "parse_error"
    /\ returned[1].val.error_count = JNum(ContextLimit + 1)

\* the lines the extractor returns for the i-th file of the run
ExtractedOf(i) == extract_error_lines(Get(log_files[i], "content", <<>>))

ClassifierCallsMade ==
    Cardinality({i \in 1..Len(llm_calls) : llm_calls[i].agent = "classifier"})

\* the fold of process_multiple_logs over the given FileClassifications
RECURSIVE FoldResults(_, _)
FoldResults(a, results) ==
    IF Len(results) = 0 THEN Ok(a)
    ELSE LET one == fold_result(a, Head(results), Head(results).filename)
         IN  IF ~one.ok THEN one ELSE FoldResults(one.val, Tail(results))

NoErrorsIffNothingExtracted(results) ==
    /\ \A i \in 1..Len(results) :
          /\ results[i].status = "no_errors" <=> ExtractedOf(i) = <<>>
          /\ ExtractedOf(i) = <<>> =>
                /\ results[i].error_count = JNum(0)
                /\ results[i].errors = <<>>
    /\ ClassifierCallsMade =
          Cardinality({i \in 1..Len(results) : ExtractedOf(i) # <<>>})

\* C20: a FileClassification has status no_errors exactly when the extractor
\* returned no line for its file; then no generation call was made for the
\* file (the classifier calls made are as many as the files with extracted
\* lines), error_count is 0 and errors is empty, and the aggregated entries,
\* total and histogram are those of the other files alone.
C20_NoErrorsIffNothingExtracted ==
    /\ pc \in {"process_multiple_logs", "aggregate_analysis"} =>
          /\ NoErrorsIffNothingExtracted(acc.all_results)
          /\ LET others == SelectSeq(acc.all_results,
                                     LAMBDA r : r.status # "no_errors")
             IN  FoldResults(EmptyAcc, others)
                    = Ok([acc EXCEPT !.all_results = others])
    /\ classification_result # None =>
          /\ NoErrorsIffNothingExtracted(classification_result[1].file_results)
          /\ (\A i \in 1..Len(classification_result[1].file_results) :
                 classification_result[1].file_results[i].status = "no_errors") =>
                /\ classification_result[1].aggregated_errors = <<>>
                /\ classification_result[1].total_errors = 0

\* C20 witness: a file without a matching line and a file with matching
\* lines were classified with one generation call for the classifier; the
\* first has status no_errors and the entries list the second file alone
C20_Witness ==
    /\ classification_result # None
    /\ Len(log_files) = 2
    /\ log_files[1] = FileQ
    /\ log_files[2] = FileA
    /\ classification_result[1].file_results[1].status = "no_errors"
    /\ classification_result[1].file_results[2].status = "analyzed"
    /\ ClassifierCallsMade = 1
    /\ Len(aggregated_errors[1]) = 2
    /\ \A i \in 1..2 : aggregated_errors[1][i].files = <<"A">>

(* ---------------------------- direct calls: extractors ------------------ *)
\* extract_error_lines of ErrorClassificationAgent (multi-file mode) and of
\* ErrorAnalyzer (single-file mode) called on their own.

\* the i-th line of a log text of the given kind; every line carries its
\* number, so no two lines of a text are equal
LogLine(kind, i) ==
    CASE kind = "errors" -> <<"E", "R", "R", " ", ToString(i)>>
      [] kind = "alternating" ->
            IF i % 2 = 1 THEN <<"E", "R", "R", " ", ToString(i)>>
            ELSE <<"o", "k", " ", ToString(i)>>
      [] kind = "warnings" ->
            IF i % 3 = 0 THEN <<"W", "A", "R", "N", " ", ToString(i)>>
            ELSE IF i % 3 = 1
            THEN <<"T", "i", "m", "e", "o", "u", "t", " ", ToString(i)>>
            ELSE <<"o", "k", " ", ToString(i)>>
      [] kind = "clean" -> <<"o", "k", " ", ToString(i)>>

LogKinds == {"errors", "alternating", "warnings", "clean"}

LogText(kind, n) == [i \in 1..n |-> LogLine(kind, i)]

ExtractorMethods ==
    {"ErrorClassificationAgent.extract_error_lines",
     "ErrorAnalyzer.extract_error_lines"}

InitExtractor ==
    /\ Constructed
    /\ arguments \in
          {Some([method |-> m, log_content |-> LogText(kind, n)]) :
              m \in ExtractorMethods, kind \in LogKinds, n \in 0..MaxLines}
    /\ returned = <<>>

\* classification_agent.extract_error_lines(log_content)
extract_error_lines_call ==
    /\ pc = "idle"
    /\ arguments # None
    /\ arguments[1].method = "ErrorClassificationAgent.extract_error_lines"
    /\ returned = <<>>
    /\ returned' = <<Ok(extract_error_lines(arguments[1].log_content))>>
    /\ UNCHANGED <<run_state, arguments>>

\* ErrorAnalyzer.extract_error_lines(log_content)
analyzer_extract_error_lines_call ==
    /\ pc = "idle"
    /\ arguments # None
    /\ arguments[1].method = "ErrorAnalyzer.extract_error_lines"
    /\ returned = <<>>
    /\ returned' = <<Ok(analyzer_extract_error_lines(arguments[1].log_content))>>
    /\ UNCHANGED <<run_state, arguments>>

NextExtractor ==
    \/ extract_error_lines_call
    \/ analyzer_extract_error_lines_call

SpecExtractor == InitExtractor /\ [][NextExtractor]_vars

\* the lowercase form of the line contains a keyword of the fixed set
HasKeyword(line) ==
    \E k \in 1..Len(error_keywords) : Contains(Lower(line), error_keywords[k])

\* the last n elements of the sequence, all of them when it has n or fewer
Last(seq, n) ==
    [i \in 1..(IF Len(seq) > n THEN n ELSE Len(seq)) |->
        seq[i + (IF Len(seq) > n THEN Len(seq) - n ELSE 0)]]

\* C21: for every log text, extract_error_lines returns at most 100 lines
\* (in single-file mode at most 50), each with a keyword of the fixed set in
\* its lowercase form, and what it returns is the last 100 (50) lines of the
\* text that contain a keyword of the fixed set, in their order.
C21_ExtractorReturnsLastMatchingLines ==
    (arguments # None /\ arguments[1].method \in ExtractorMethods
                      /\ returned # <<>>) =>
        LET cap == IF arguments[1].method = "ErrorAnalyzer.extract_error_lines"
                   THEN 50 ELSE 100
            out == returned[1].val
        IN  /\ Len(out) <= cap
            /\ \A i \in 1..Len(out) : HasKeyword(out[i])
            /\ out = Last(SelectSeq(arguments[1].log_content, HasKeyword), cap)

(* ---------------------------- direct calls: notification dispatcher ----- *)
\* NotificationAgent.send_notifications called on its own, for every
\* behaviour of the two notifiers and every choice of the two flags.

SlackBehaviours == {"unconfigured", "sent", "refused", "raised"}

JiraBehaviours == {"unconfigured", "no_project_key", "created", "none", "raised"}

InitNotifier ==
    /\ Constructed
    /\ arguments \in
          {Some([method |-> "NotificationAgent.send_notifications",
                 slack |-> s, jira |-> j, send_slack |-> fs, send_jira |-> fj]) :
              s \in SlackBehaviours, j \in JiraBehaviours,
              fs \in BOOLEAN, fj \in BOOLEAN}
    /\ returned = <<>>

\* notification_agent.send_notifications(..., send_slack, send_jira)
send_notifications_call ==
    /\ pc = "idle"
    /\ arguments # None
    /\ arguments[1].method = "NotificationAgent.send_notifications"
    /\ returned = <<>>
    /\ returned' = <<Ok(NotificationAgent_send_notifications(
                        arguments[1].slack, arguments[1].jira,
                        arguments[1].send_slack, arguments[1].send_jira))>>
    /\ UNCHANGED <<run_state, arguments>>

NextNotifier == send_notifications_call

SpecNotifier == InitNotifier /\ [][NextNotifier]_vars

\* a returned call of send_notifications
NotifierCall ==
    /\ arguments # None
    /\ arguments[1].method = "NotificationAgent.send_notifications"
    /\ returned # <<>>

\* the entry of a channel records an attempt: it is a result, not None
Attempted(entry_of_channel) == DOMAIN entry_of_channel # {}

\* C22: in send_notifications the ticket creation is attempted whenever it is
\* asked for, whatever the chat-message call did (sent, refused, raised, not
\* configured, or not asked for); each channel's entry records that channel's
\* own success or failure; all_success is true only if every channel asked
\* for succeeded, and with both asked for exactly when both succeeded.
C22_ChannelsIndependent ==
    NotifierCall =>
        LET a == arguments[1]
            r == returned[1].val
        IN  /\ returned[1].ok
            /\ Attempted(r.slack) <=> a.send_slack
            /\ Attempted(r.jira) <=> a.send_jira
            /\ a.send_slack => (r.slack.success <=> a.slack = "sent")
            /\ a.send_jira => (r.jira.success <=> a.jira = "created")
            /\ r.all_success =>
                  /\ a.send_slack => a.slack = "sent"
                  /\ a.send_jira => a.jira = "created"
            /\ (a.send_slack /\ a.send_jira) =>
                  (r.all_success <=> (r.slack.success /\ r.jira.success))

\* the chat message raised and the ticket was created all the same
C22_Witness ==
    /\ NotifierCall
    /\ arguments[1].send_slack
    /\ arguments[1].send_jira
    /\ arguments[1].slack = "raised"
    /\ arguments[1].jira = "created"
    /\ returned[1].val.slack.success = FALSE
    /\ returned[1].val.jira.success = TRUE
    /\ returned[1].val.all_success = FALSE

(* ---------------------------- find_solutions: failure paths ------------- *)
\* the service answered and its text is not JSON, fenced or not
NotJson(resp) == resp.ok /\ ~resp.val.body.json

\* C23: when the response of the solution generator does not parse as JSON,
\* find_solutions returns exactly 3 candidates titled "Retry Analysis",
\* "Manual Review", "Contact Support", in that order, with ranks 1, 2, 3,
\* whatever the text of the response.
C23_FallbackOnParseFailure ==
    (GeneratorCall /\ NotJson(arguments[1].response)) =>
        LET out == returned[1].val
        IN  /\ Len(out) = 3
            /\ [i \in 1..3 |-> out[i].title]
                  = <<"Retry Analysis", "Manual Review", "Contact Support">>
            /\ [i \in 1..3 |-> out[i].rank] = <<1, 2, 3>>

\* C23 witness: a fenced text that is not JSON was answered with the three
\* fallback candidates
C23_Witness ==
    /\ GeneratorCall
    /\ arguments[1].response = Ok(Text("json", Garbage))
    /\ Len(returned[1].val) = 3
    /\ returned[1].val[1].title = "Retry Analysis"
    /\ returned[1].val[3].title = "Contact Support"

\* the try block of find_solutions raises an exception that is not a JSON
\* decoding error: the service call raised, or the text is JSON but not an
\* object, so that result.get raises
RaisesOtherThanParseFailure(resp) ==
    \/ ~resp.ok
    \/ resp.ok /\ resp.val.body.json /\ resp.val.body.val.t # "object"

\* the exception of that case
RaisedBy(resp) == IF ~resp.ok THEN resp.exc ELSE "AttributeError"

\* C24: when generating the solutions raises an exception other than a JSON
\* parse failure, find_solutions returns exactly one candidate, "Error in
\* Solution Generation", whose description names the exception; and a list
\* returned by find_solutions, or the ranking of it that the solve stage
\* stores, has a length other than 3 on that path only.
C24_DegradedOnOtherException ==
    GeneratorCall =>
        LET resp == arguments[1].response
        IN  /\ RaisesOtherThanParseFailure(resp) =>
                  /\ Len(returned[1].val) = 1
                  /\ returned[1].val[1].title = "Error in Solution Generation"
                  /\ returned[1].val[1].description
                        = "Error occurred: " \o RaisedBy(resp)
            /\ \A r \in 1..Len(returned) :
                  (returned[r].ok /\ Len(returned[r].val) # 3) =>
                      RaisesOtherThanParseFailure(resp)

\* C24 witness: the service raised; find_solutions returned the degraded
\* candidate alone and its ranking is the list of that one candidate
C24_Witness ==
    /\ GeneratorCall
    /\ arguments[1].response = Raise("ServiceError")
    /\ Len(returned) = 2
    /\ Len(returned[1].val) = 1
    /\ returned[1].val[1].description = "Error occurred: ServiceError"
    /\ returned[2].ok
    /\ Len(returned[2].val) = 1

(* ---------------------------- severity histogram ------------------------ *)
\* the number of records whose severity (Medium when absent) is s
RECURSIVE RecordsOfSeverity(_, _)
RecordsOfSeverity(records, s) ==
    IF Len(records) = 0 THEN 0
    ELSE (IF Get(Head(records), "severity", "Medium") = s THEN 1 ELSE 0)
         + RecordsOfSeverity(Tail(records), s)

BucketSum(counts) ==
    counts["Critical"] + counts["High"] + counts["Medium"] + counts["Low"]

\* every bucket counts the records of its severity, one per record
BucketsCountRecords(counts, results) ==
    \A s \in {"Critical", "High", "Medium", "Low"} :
        counts[s] = RecordsOfSeverity(AllRecords(results), s)

\* C25: the severity_distribution of process_multiple_logs counts each
\* ErrorRecord once, whatever its frequency and whatever its error_type, in
\* the bucket of its severity, and the four buckets Critical, High, Medium,
\* Low add up to the number of ErrorRecords of all files.
C25_BucketsAccountForEveryRecord ==
    /\ pc \in {"process_multiple_logs", "aggregate_analysis"} =>
          /\ BucketsCountRecords(acc.severity_counts, acc.all_results)
          /\ BucketSum(acc.severity_counts) = Len(AllRecords(acc.all_results))
    /\ classification_result # None =>
          /\ BucketsCountRecords(classification_result[1].severity_distribution,
                                 classification_result[1].file_results)
          /\ BucketSum(classification_result[1].severity_distribution)
                = Len(AllRecords(classification_result[1].file_results))

(* ---------------------------- generation calls per stage ---------------- *)
\* the positions of llm_calls that hold a call of the stage, of the agent
CallsOfStage(stage) == {i \in 1..Len(llm_calls) : llm_calls[i].stage = stage}

CallsOfAgent(agent) == {i \in 1..Len(llm_calls) : llm_calls[i].agent = agent}

\* the input files with a line that contains a keyword
FilesWithErrorLines ==
    {i \in 1..Len(log_files) :
        \E k \in 1..Len(Get(log_files[i], "content", <<>>)) :
            HasKeyword(log_files[i].content[k])}

\* the calls come one after the other, stage by stage: the classifier calls,
\* then the rollup call, and a call of the solve stage only after the classify
\* stage has finished with its result stored
StagesCallInTurn ==
    /\ \A i, j \in 1..Len(llm_calls) :
          (llm_calls[i].stage = "solve" /\ llm_calls[j].stage = "classify") => j < i
    /\ \A i \in CallsOfAgent("rollup"), j \in CallsOfAgent("classifier") : j < i
    /\ CallsOfStage("solve") # {} =>
          /\ classification_result # None
          /\ pc \notin {"classify_errors", "process_multiple_logs",
                         "aggregate_analysis"}
    /\ \A i \in 1..Len(llm_calls) : llm_calls[i].stage \in {"classify", "solve"}

\* C26 as stated: each stage issues at most two calls to the generation
\* service, for any number of input log files, and no call of a later stage
\* starts before the earlier stage has finished.
C26_AtMostTwoCallsPerStage ==
    /\ \A stage \in {"classify", "solve", "notify"} :
          Cardinality(CallsOfStage(stage)) <= 2
    /\ StagesCallInTurn

\* C26 amended: the classify stage issues at most one classifier call per
\* input log file that has a line with a keyword, followed by at most one
\* rollup call; the solve stage issues at most one call and the notify stage
\* none; no call of a later stage starts before the earlier stage has
\* finished.
C26_CallsPerStageBounded ==
    /\ Cardinality(CallsOfAgent("classifier")) <= Cardinality(FilesWithErrorLines)
    /\ Cardinality(CallsOfAgent("rollup")) <= 1
    /\ CallsOfStage("classify") = CallsOfAgent("classifier") \cup CallsOfAgent("rollup")
    /\ Cardinality(CallsOfStage("solve")) <= 1
    /\ CallsOfStage("solve") = CallsOfAgent("solutions")
    /\ CallsOfStage("notify") = {}
    /\ StagesCallInTurn

\* C26 witness: a full run over two files with matching lines has returned;
\* the classify stage made three calls, then the solve stage made one
C26_Witness ==
    /\ Returned
    /\ entry = "run_workflow"
    /\ Len(log_files) = 2
    /\ [i \in 1..Len(llm_calls) |-> llm_calls[i].agent]
          = <<"classifier", "classifier", "rollup", "solutions">>
    /\ Cardinality(CallsOfStage("classify")) = 3

(* ---------------------------- full run without a selection -------------- *)
\* run_workflow was called with no selected solution: None or an empty dict
NoSolutionSelected ==
    /\ entry = "run_workflow"
    /\ selected_solution = None \/ selected_solution = Some(<<>>)

\* C27: no step of a run changes selected_solution (the solve stage does not
\* select a solution), and a full run called without a selected solution
\* returns current_step = notification_skipped, "No solution selected for
\* notification" among its errors and success = false, also when the
\* classify and solve stages completed without a failure.
C27_FullRunWithoutSelectionSkips ==
    [][/\ selected_solution' = selected_solution
       /\ (NoSolutionSelected' /\ pc' = "done") =>
             /\ result'[1].current_step = "notification_skipped"
             /\ current_step' = "notification_skipped"
             /\ \E i \in 1..Len(result'[1].errors) :
                   result'[1].errors[i] = "No solution selected for notification"
             /\ ~result'[1].success
             /\ result'[1].selected_solution = selected_solution]_vars

\* C27 witness: a full run without a selected solution has returned; the
\* classify and solve stages completed, three ranked solutions are returned,
\* and the only error is the missing selection
C27_Witness ==
    /\ Returned
    /\ NoSolutionSelected
    /\ selected_solution = None
    /\ step_log = <<"classifying_errors", "classification_complete",
                    "finding_solutions", "solutions_found",
                    "sending_notifications", "notification_skipped">>
    /\ Len(result[1].solutions[1]) = 3
    /\ result[1].errors = <<"No solution selected for notification">>
    /\ result[1].current_step = "notification_skipped"
    /\ ~result[1].success

(* ---------------------------- notify stage and the flag ----------------- *)
\* a full run has returned, a selected solution was supplied and the
\* aggregated errors are not empty
FullRunWithSelection ==
    /\ Returned
    /\ entry = "run_workflow"
    /\ selected_solution # None
    /\ selected_solution # Some(<<>>)
    /\ aggregated_errors # None
    /\ Len(aggregated_errors[1]) > 0

\* C28: every full run executes the notify stage, whatever send_notifications
\* is; when a selected solution is supplied and the aggregated errors are not
\* empty the notification dispatcher is invoked, also with send_notifications
\* false; the flag decides only whether the returned record carries
\* notification_results.
C28_NotifyRunsWhateverTheFlag ==
    /\ (Returned /\ entry = "run_workflow") =>
          /\ \E i \in 1..Len(step_log) : step_log[i] = "sending_notifications"
          /\ result[1].notification_results
                = IF send_notifications THEN notification_results ELSE None
    /\ FullRunWithSelection =>
          /\ Len(dispatch_log) = 1
          /\ notification_results # None
          /\ current_step = "notifications_sent"

(* ---------------------------- full run over clean logs ------------------ *)
\* a full run over one or more log files none of which has a line with a
\* keyword
CleanFullRun ==
    /\ entry = "run_workflow"
    /\ Len(log_files) > 0
    /\ FilesWithErrorLines = {}

\* the classify stage is over
ClassifyStageOver ==
    pc \notin {"classify_errors", "process_multiple_logs", "aggregate_analysis"}

\* C29: in a full run over a non-empty sequence of log files without any
\* line that matches a keyword, the classify stage ends at
\* classification_complete with aggregated_errors empty, no generation call
\* is made for solutions, solutions stays null, and the run returns with "No
\* errors found to generate solutions for" among its errors and success false.
C29_CleanLogsYieldNoSolutions ==
    CleanFullRun =>
        /\ CallsOfAgent("solutions") = {}
        /\ solution_requests = <<>>
        /\ solutions = None
        /\ ClassifyStageOver =>
              /\ step_log[2] = "classification_complete"
              /\ \A i \in 1..Len(step_log) : step_log[i] # "classification_failed"
              /\ aggregated_errors = Some(<<>>)
        /\ Returned =>
              /\ \E i \in 1..Len(result[1].errors) :
                    result[1].errors[i] = "No errors found to generate solutions for"
              /\ result[1].solutions = None
              /\ result[1].aggregated_errors = Some(<<>>)
              /\ ~result[1].success

\* C29 witness: a full run over two clean files has returned; the rollup was
\* the only generation call
C29_Witness ==
    /\ Returned
    /\ CleanFullRun
    /\ Len(log_files) = 2
    /\ [i \in 1..Len(llm_calls) |-> llm_calls[i].agent] = <<"rollup">>
    /\ classification_result[1].file_results[1].status = "no_errors"
    /\ classification_result[1].file_results[2].status = "no_errors"
    /\ result[1].errors[1] = "No errors found to generate solutions for"
    /\ result[1].solutions = None
    /\ ~result[1].success

(* ---------------------------- the errors list --------------------------- *)
ExceptionNames == {"TypeError", "AttributeError", "ServiceError", "JSONDecodeError"}

\* the stage (1 classify, 2 solve, 3 notify) that writes the error string
ErrorStage(e) ==
    IF e \in {"No log files provided"}
             \cup {"Classification error: " \o x : x \in ExceptionNames}
    THEN 1
    ELSE IF e \in {"No classification result available",
                   "No errors found to generate solutions for"}
                  \cup {"Solution finding error: " \o x : x \in ExceptionNames}
    THEN 2
    ELSE IF e \in {"No solution selected for notification",
                   "No errors to notify about"}
                  \cup {"Notification error: " \o x : x \in ExceptionNames}
    THEN 3
    ELSE 0

\* the number of stages the entry point runs
StagesOf(entry_point) ==
    CASE entry_point = "run_workflow" -> 3
      [] entry_point = "run_with_selected_solution" -> 2
      [] entry_point = "run_classification_only" -> 1

\* C30: every step of a run leaves errors as it is or appends one entry to
\* it; the entries are written by different stages and stand in stage order,
\* so there are at most 3 in a full run, 2 in a resume run and 1 in a
\* classification-only run; no step changes log_files or selected_solution.
C30_ErrorsAppendOnly ==
    [][/\ errors' = errors \/ \E e \in Range(errors') : errors' = Append(errors, e)
       /\ \A i \in 1..Len(errors') : ErrorStage(errors'[i]) \in 1..3
       /\ \A i, j \in 1..Len(errors') :
             i < j => ErrorStage(errors'[i]) < ErrorStage(errors'[j])
       /\ Len(errors') <= StagesOf(entry)
       /\ entry = "run_with_selected_solution" =>
             \A i \in 1..Len(errors') : ErrorStage(errors'[i]) # 2
       /\ entry = "run_classification_only" =>
             \A i \in 1..Len(errors') : ErrorStage(errors'[i]) = 1
       /\ log_files' = log_files
       /\ selected_solution' = selected_solution]_vars

\* C30 witness: a full run has returned with one entry of each stage
C30_Witness ==
    /\ Returned
    /\ entry = "run_workflow"
    /\ Len(errors) = 3
    /\ [i \in 1..3 |-> ErrorStage(errors[i])] = <<1, 2, 3>>
    /\ result[1].errors = errors

====
